---- MODULE Spec2Model ----
(***************************************************************************)
(* Spyfall room session engine (src/app.py) and the single-device dealer   *)
(* (src/Non-Host Version/Spyfall Simulation (Non-host).py).                *)
(*                                                                         *)
(* The registry `rooms` maps a room code to a GameRoom record; a room's    *)
(* `players` dict (sid -> Player, in insertion order) is a sequence of     *)
(* Player records.  Every Socket.IO handler is one action.                 *)
(***************************************************************************)
EXTENDS Integers, Sequences, FiniteSets, TLC

VARIABLES
    rooms,        \* app.py: rooms, code -> GameRoom
    sid_to_room,  \* app.py: sid_to_room, sid -> code
    nextSid,      \* the connection identity the transport hands out next
    hist,         \* what the last disconnect saw (history, for reconnect claims)
    threads,      \* handler threads in flight (interleaved specification only)
    nh,           \* the Non-host program: its last deal_roles call and result
    steps,        \* commands handled so far
    evicted,      \* names whose standing ballot was cast by a participant kicked
                  \* since (history, for the eviction claims)
    clock         \* time.time() as the last timer command read it, in seconds

vars == <<rooms, sid_to_room, nextSid, hist, threads, nh, steps, evicted, clock>>

----------------------------------------------------------------------------
(* Bounds of the model *)

MaxSteps == 8        \* commands handled in one run of the engine
MaxSid == 5          \* connections ever opened
MaxPlayers == 4      \* Player records kept in one room
MaxRound == 2        \* deals without a return to the lobby
MaxScratch == 1      \* notes plus eliminated locations kept in one room

\* time.time() when the server starts, in seconds
ClockStart == 1000

----------------------------------------------------------------------------
(* Values *)

None == "None"     \* Python's None in a name, role, location or outcome field
NoSid == 0          \* None in a sid field (sids are the positive integers)
NoTime == -1        \* None in a timer field (times are the naturals)
SPY == "SPY"

\* The inputs the commands are tried with
Codes == {"ROOM01"}                    \* room codes _generate_room_code can draw
CreatorNames == {"Al"}                 \* data["name"] of create_room
Names == {"Al", "Bob", "bob", "Cy"}    \* data["name"] of join_room, data["target"]
MinutesInputs == {5}                   \* data["minutes"] of start_game
NoteTargets == {"Al"}                  \* data["targetName"] of update_notes
NoteTexts == {"liar"}                  \* data["noteText"] of update_notes
ToggleInputs == {"Taxi"}               \* data["location"] of toggle_location
GuessInputs == {"Nightclub", "Taxi"}   \* data["location"] of spy_guess
NHPlayerCounts == {3, 8}               \* "Number of players? (3-20)" of the Non-host program

\* str.lower() on the display names used
lower(name) ==
    CASE name = "Al" -> "al"
      [] name = "Bob" -> "bob"
      [] name = "bob" -> "bob"
      [] name = "Cy" -> "cy"
      [] OTHER -> name

\* the rows of locations.csv: location, then the roles column split at commas
CSV_ROWS ==
    << <<"Nightclub", <<"DJ", "Bartender", "DJ">> >>,
       <<"Taxi", <<"Driver">> >> >>

RECURSIVE unique_roles(_)
\* load_locations: the roles of a row in order, each kept once
unique_roles(roles) ==
    IF roles = <<>> THEN <<>>
    ELSE LET r == roles[Len(roles)]
             front == unique_roles(SubSeq(roles, 1, Len(roles) - 1))
         IN IF \E i \in DOMAIN front : front[i] = r THEN front ELSE Append(front, r)

\* load_locations: location -> its deduplicated roles (a later row of the same
\* location overwrites an earlier one)
load_locations(rows) ==
    [loc \in {rows[i][1] : i \in DOMAIN rows} |->
        LET last == CHOOSE i \in DOMAIN rows :
                        /\ rows[i][1] = loc
                        /\ \A j \in DOMAIN rows : rows[j][1] = loc => j <= i
        IN unique_roles(rows[last][2])]

LOCATION_ROLES == load_locations(CSV_ROWS)

Player(sid, name, is_host) ==
    [sid |-> sid, name |-> name, is_host |-> is_host, role |-> None,
     location |-> None, notes |-> <<>>, eliminated_locations |-> <<>>,
     vote_target |-> None, connected |-> TRUE]

GameRoom(code, host_sid) ==
    [code |-> code, host_sid |-> host_sid, players |-> <<>>, phase |-> "lobby",
     location |-> None, spy_sid |-> NoSid, round_minutes |-> 8,
     timer_end |-> NoTime, timer_paused_remaining |-> NoTime, votes |-> <<>>,
     spy_guesses_remaining |-> 2, spy_guess_result |-> None, round_number |-> 0,
     tied_suspects |-> {}, defense_timer_end |-> NoTime,
     defense_timer_paused_remaining |-> NoTime, revote_votes |-> <<>>]

----------------------------------------------------------------------------
(* Dicts: room.players is a sequence of Player records keyed by their sid *)

HasKey(ps, sid) == \E i \in DOMAIN ps : ps[i].sid = sid
KeyIdx(ps, sid) == CHOOSE i \in DOMAIN ps : ps[i].sid = sid
\* players[sid] = p : in place when the key exists, at the end otherwise
DictSet(ps, sid, p) ==
    IF HasKey(ps, sid) THEN [ps EXCEPT ![KeyIdx(ps, sid)] = p] ELSE Append(ps, p)
\* del players[sid]
DictDel(ps, sid) == SelectSeq(ps, LAMBDA p : p.sid # sid)
\* d.pop(key, None) / del d[key] on a dict kept as a function
Pop(d, key) == [k \in DOMAIN d \ {key} |-> d[k]]
\* d[key] = value on a dict kept as a function
Put(d, key, value) == (key :> value) @@ d
Range(f) == {f[x] : x \in DOMAIN f}

\* GameRoom.player_names
player_names(room) ==
    {room.players[i].name : i \in {j \in DOMAIN room.players : room.players[j].connected}}

\* GameRoom.player_by_name: index of the first player with the name, 0 for None
player_by_name(room, name) ==
    LET hits == {i \in DOMAIN room.players : room.players[i].name = name}
    IN IF hits = {} THEN 0 ELSE CHOOSE i \in hits : \A j \in hits : i <= j

\* a count of all the players of the room, connected or not
connected_count_of_all(room) == Len(room.players)

\* GameRoom.connected_count
connected_count(room) ==
    Cardinality({i \in DOMAIN room.players : room.players[i].connected})

----------------------------------------------------------------------------
(* secrets.SystemRandom: every outcome the generator can produce *)

\* the sequences of k pairwise different positions drawn from S
RECURSIVE arrangements(_, _)
arrangements(S, k) ==
    IF k = 0 THEN {<<>>}
    ELSE UNION {{Append(rest, i) : rest \in arrangements(S \ {i}, k - 1)} : i \in S}

\* RNG.sample(pool, k): k entries at pairwise different positions of pool
RNG_sample(pool, k) ==
    {[i \in 1..k |-> pool[f[i]]] : f \in arrangements(DOMAIN pool, k)}

\* RNG.shuffle(roles): every rearrangement of roles
RNG_shuffle(roles) ==
    {[i \in DOMAIN roles |-> roles[f[i]]] : f \in arrangements(DOMAIN roles, Len(roles))}

\* a padding that hands the first role of the pool to everyone
pad_roles_with_one_role(pool, count) ==
    {[i \in 1..count |-> pool[1]]}

\* roles = pool[:]; while len(roles) < count: roles.append(RNG.choice(pool))
pad_roles(pool, count) ==
    {pool \o extra : extra \in [1..(count - Len(pool)) -> Range(pool)]}

\* _assign_roles
_assign_roles(location, non_spy_count) ==
    LET pool == LOCATION_ROLES[location]
    IN IF non_spy_count <= Len(pool)
       THEN RNG_sample(pool, non_spy_count)
       ELSE UNION {RNG_shuffle(roles) : roles \in pad_roles(pool, non_spy_count)}

\* _deal_round with its three random draws fixed
deal_with(room, location, spy, roles) ==
    LET connected == {i \in DOMAIN room.players : room.players[i].connected}
        non_spies == connected \ {spy}
        rank(i) == Cardinality({j \in non_spies : j <= i})
        dealt(i) ==
            LET p == room.players[i]
                q == [p EXCEPT !.vote_target = None, !.eliminated_locations = <<>>]
            IN IF i \notin connected THEN p
               ELSE IF i = spy THEN [q EXCEPT !.role = SPY, !.location = None]
               ELSE IF rank(i) \in DOMAIN roles
                    THEN [q EXCEPT !.role = roles[rank(i)], !.location = location]
                    ELSE q
    IN [room EXCEPT
          !.round_number = room.round_number + 1,
          !.location = location,
          !.spy_sid = room.players[spy].sid,
          !.players = [i \in DOMAIN room.players |-> dealt(i)],
          !.phase = "playing",
          !.votes = <<>>,
          !.spy_guesses_remaining = 2,
          !.spy_guess_result = None,
          !.timer_end = NoTime,
          !.timer_paused_remaining = NoTime,
          !.tied_suspects = {},
          !.defense_timer_end = NoTime,
          !.defense_timer_paused_remaining = NoTime,
          !.revote_votes = <<>>]

\* _deal_round: the rooms a deal can leave
_deal_round(room) ==
    LET connected == {i \in DOMAIN room.players : room.players[i].connected}
    IN UNION {UNION {{deal_with(room, location, spy, roles) :
                        roles \in _assign_roles(location, Cardinality(connected) - 1)} :
                     spy \in connected} :
              location \in DOMAIN LOCATION_ROLES}

----------------------------------------------------------------------------
(* Vote tally *)

\* Counter(ballots.values())[name]
tally(ballots, name) == Cardinality({v \in DOMAIN ballots : ballots[v] = name})

\* the names whose count equals tally.most_common(1)[0][1]
top_names(ballots) ==
    {name \in Range(ballots) :
        \A other \in Range(ballots) : tally(ballots, other) <= tally(ballots, name)}

\* _check_accusation
_check_accusation(room, accused_name) ==
    IF /\ HasKey(room.players, room.spy_sid)
       /\ accused_name = room.players[KeyIdx(room.players, room.spy_sid)].name
    THEN [room EXCEPT !.phase = "spy_guess", !.spy_guesses_remaining = 2]
    ELSE [room EXCEPT !.phase = "round_end", !.spy_guess_result = "spy_wins_wrong_vote"]

\* a resolution that sends every tie back to the discussion
_resolve_vote_tie_to_playing(room) ==
    LET tied == top_names(room.votes)
    IN IF Cardinality(tied) > 1 THEN [room EXCEPT !.phase = "playing", !.votes = <<>>]
       ELSE _check_accusation(room, CHOOSE name \in tied : TRUE)

\* a resolution that sends every tie to the defense
_resolve_vote_tie_to_defense(room) ==
    LET tied == top_names(room.votes)
    IN IF Cardinality(tied) > 1
       THEN [room EXCEPT !.phase = "defense", !.tied_suspects = tied,
                         !.defense_timer_end = NoTime,
                         !.defense_timer_paused_remaining = NoTime,
                         !.revote_votes = <<>>]
       ELSE _check_accusation(room, CHOOSE name \in tied : TRUE)

\* _resolve_vote
_resolve_vote(room) ==
    LET tied == top_names(room.votes)
        eligible_revoters == player_names(room) \ tied
    IN IF Range(room.votes) = {} THEN [room EXCEPT !.phase = "playing"]
       ELSE IF Cardinality(tied) > 1
       THEN IF eligible_revoters = {}
            THEN [room EXCEPT !.phase = "playing", !.votes = <<>>]
            ELSE [room EXCEPT !.phase = "defense",
                              !.tied_suspects = tied,
                              !.defense_timer_end = NoTime,
                              !.defense_timer_paused_remaining = NoTime,
                              !.revote_votes = <<>>]
       ELSE _check_accusation(room, CHOOSE name \in tied : TRUE)

\* a revote resolution that answers a tie with another defense
_resolve_revote_tie_to_defense(room) ==
    LET tied == top_names(room.revote_votes)
    IN IF Cardinality(tied) > 1
       THEN [room EXCEPT !.phase = "defense", !.tied_suspects = tied, !.revote_votes = <<>>]
       ELSE _check_accusation(room, CHOOSE name \in tied : TRUE)

\* _resolve_revote
_resolve_revote(room) ==
    LET tied == top_names(room.revote_votes)
    IN IF Range(room.revote_votes) = {} THEN [room EXCEPT !.phase = "playing"]
       ELSE IF Cardinality(tied) > 1
       THEN [room EXCEPT !.phase = "round_end", !.spy_guess_result = "spy_wins_revote_tie"]
       ELSE _check_accusation(room, CHOOSE name \in tied : TRUE)

\* a completeness check that never finds the ballot complete
_check_all_voted_never(room) == FALSE

\* _check_all_voted
_check_all_voted(room) == player_names(room) = DOMAIN room.votes

----------------------------------------------------------------------------
(* The Socket.IO handlers.  `sid` is request.sid; a handler that returns early
   or only emits an error leaves every variable unchanged. *)

\* hist: "disc" right after a disconnect, with the Player and the room as they
\* were before it; "rejoin" when the very next command is a join under the same
\* name on a new connection `sid` while the round is on; "none" otherwise
NoHist == [kind |-> "none", code |-> "", sid |-> NoSid,
           player |-> Player(NoSid, "", FALSE), room |-> GameRoom("", NoSid)]

\* the room a handler looks up: code = sid_to_room.get(sid), code in rooms
Bound(sid) == sid \in DOMAIN sid_to_room /\ sid_to_room[sid] \in DOMAIN rooms
RoomOf(sid) == rooms[sid_to_room[sid]]

\* the effect shared by the handlers that only change their room
Commit(sid, room) ==
    /\ rooms' = [rooms EXCEPT ![sid_to_room[sid]] = room]
    /\ hist' = NoHist
    /\ UNCHANGED <<sid_to_room, nextSid, threads, nh>>

\* a new connection takes the next sid; a known one keeps its own
Connect(sid) == nextSid' = IF sid = nextSid THEN nextSid + 1 ELSE nextSid

on_create_room(sid, name, code) ==
    /\ code \notin DOMAIN rooms
    /\ rooms' = (code :> [GameRoom(code, sid) EXCEPT
                             !.players = <<Player(sid, name, TRUE)>>]) @@ rooms
    /\ sid_to_room' = Put(sid_to_room, sid, code)
    /\ Connect(sid)
    /\ hist' = NoHist
    /\ UNCHANGED <<threads, nh>>

on_join_room(sid, name, code) ==
    /\ code \in DOMAIN rooms
    /\ LET room == rooms[code]
           existing == player_by_name(room, name)
       IN IF room.phase # "lobby"
          THEN \* reconnect when the name matches a disconnected player
               /\ existing # 0
               /\ ~room.players[existing].connected
               /\ LET old_sid == room.players[existing].sid
                      rebound == [room.players[existing] EXCEPT
                                     !.sid = sid, !.connected = TRUE]
                  IN rooms' = [rooms EXCEPT ![code] =
                        [room EXCEPT
                            !.players = DictSet(DictDel(room.players, old_sid), sid, rebound),
                            !.host_sid = IF old_sid = room.host_sid THEN sid
                                         ELSE room.host_sid]]
          ELSE \* the duplicate-name check, then a new Player
               /\ \A i \in DOMAIN room.players :
                     ~(lower(room.players[i].name) = lower(name) /\ room.players[i].connected)
               /\ HasKey(room.players, sid) \/ Len(room.players) < MaxPlayers
               /\ rooms' = [rooms EXCEPT ![code] =
                     [room EXCEPT !.players =
                         DictSet(room.players, sid, Player(sid, name, FALSE))]]
    /\ sid_to_room' = Put(sid_to_room, sid, code)
    /\ Connect(sid)
    /\ hist' = IF hist.kind = "disc" /\ hist.code = code /\ hist.player.name = name
                  /\ rooms[code].phase # "lobby" /\ sid \notin DOMAIN sid_to_room
               THEN [hist EXCEPT !.kind = "rejoin", !.sid = sid] ELSE NoHist
    /\ UNCHANGED <<threads, nh>>

on_disconnect(sid) ==
    /\ sid \in DOMAIN sid_to_room
    /\ sid_to_room' = Pop(sid_to_room, sid)
    /\ IF Bound(sid) /\ HasKey(RoomOf(sid).players, sid)
       THEN LET code == sid_to_room[sid]
                room == rooms[code]
                me == KeyIdx(room.players, sid)
                off == [room.players EXCEPT ![me].connected = FALSE]
                others == {i \in DOMAIN off : off[i].connected /\ off[i].sid # sid}
                \* the first p in room.players.values() that is connected
                heir == CHOOSE i \in others : \A j \in others : i <= j
                after ==
                    IF room.host_sid = sid /\ others # {}
                    THEN [room EXCEPT !.players = [off EXCEPT ![heir].is_host = TRUE],
                                      !.host_sid = off[heir].sid]
                    ELSE [room EXCEPT !.players = off]
            IN /\ rooms' = IF connected_count(after) = 0 THEN Pop(rooms, code)
                           ELSE [rooms EXCEPT ![code] = after]
               /\ hist' = [kind |-> "disc", code |-> code, sid |-> NoSid,
                           player |-> room.players[me], room |-> room]
       ELSE UNCHANGED rooms /\ hist' = NoHist
    /\ UNCHANGED <<nextSid, threads, nh>>

\* minutes = data.get("minutes"); 0 stands for an absent value
on_start_game(sid, minutes) ==
    /\ Bound(sid)
    /\ sid = RoomOf(sid).host_sid
    /\ connected_count(RoomOf(sid)) >= 3
    /\ RoomOf(sid).round_number < MaxRound
    /\ \E room \in _deal_round(
            IF minutes # 0 /\ 1 <= minutes /\ minutes <= 30
            THEN [RoomOf(sid) EXCEPT !.round_minutes = minutes] ELSE RoomOf(sid)) :
          Commit(sid, room)

\* how many notes and eliminated locations the players of a room keep
scratch_count(room) ==
    Cardinality(UNION {({i} \X DOMAIN room.players[i].notes)
                       \cup ({i} \X {<<k>> : k \in DOMAIN room.players[i].eliminated_locations}) :
                       i \in DOMAIN room.players})

on_update_notes(sid, target_name, note_text) ==
    /\ Bound(sid)
    /\ HasKey(RoomOf(sid).players, sid)
    /\ scratch_count(RoomOf(sid)) < MaxScratch
    /\ LET room == RoomOf(sid)
           me == KeyIdx(room.players, sid)
       IN Commit(sid, [room EXCEPT !.players[me].notes =
                          Put(room.players[me].notes, target_name, note_text)])

on_toggle_location(sid, loc) ==
    /\ Bound(sid)
    /\ HasKey(RoomOf(sid).players, sid)
    /\ LET room == RoomOf(sid)
           me == KeyIdx(room.players, sid)
           mine == room.players[me].eliminated_locations
       IN /\ (\E k \in DOMAIN mine : mine[k] = loc) \/ scratch_count(room) < MaxScratch
          /\ Commit(sid, [room EXCEPT !.players[me].eliminated_locations =
                          IF \E k \in DOMAIN mine : mine[k] = loc
                          THEN SelectSeq(mine, LAMBDA l : l # loc)
                          ELSE Append(mine, loc)])

\* for p in room.players.values(): p.vote_target = None
clear_vote_targets(players) == [i \in DOMAIN players |-> [players[i] EXCEPT !.vote_target = None]]

on_call_vote(sid) ==
    /\ Bound(sid)
    /\ sid = RoomOf(sid).host_sid
    /\ RoomOf(sid).phase = "playing"
    /\ Commit(sid, [RoomOf(sid) EXCEPT !.phase = "voting", !.votes = <<>>,
                       !.players = clear_vote_targets(RoomOf(sid).players)])

\* on_cast_vote run alone: the room it leaves (the room itself when it returns early)
cast_vote(room, sid, target) ==
    IF room.phase # "voting" \/ ~HasKey(room.players, sid) THEN room
    ELSE LET me == KeyIdx(room.players, sid)
             cast == [room EXCEPT !.players[me].vote_target = target,
                                  !.votes = Put(room.votes, room.players[me].name, target)]
         IN IF _check_all_voted(cast) THEN _resolve_vote(cast) ELSE cast

on_cast_vote(sid, target) ==
    /\ Bound(sid)
    /\ RoomOf(sid).phase = "voting"
    /\ HasKey(RoomOf(sid).players, sid)
    /\ Commit(sid, cast_vote(RoomOf(sid), sid, target))

\* a cancel_vote that checks the host only
cancel_vote_in_any_phase(room, sid) ==
    IF sid # room.host_sid THEN room
    ELSE [room EXCEPT !.phase = "playing", !.votes = <<>>,
                      !.players = clear_vote_targets(room.players)]

\* on_cancel_vote run alone: the room it leaves (the room itself when it returns early)
cancel_vote(room, sid) ==
    IF sid # room.host_sid \/ room.phase # "voting" THEN room
    ELSE [room EXCEPT !.phase = "playing", !.votes = <<>>,
                      !.players = clear_vote_targets(room.players)]

on_cancel_vote(sid) ==
    /\ Bound(sid)
    /\ sid = RoomOf(sid).host_sid
    /\ RoomOf(sid).phase = "voting"
    /\ Commit(sid, cancel_vote(RoomOf(sid), sid))

on_proceed_to_revote(sid) ==
    /\ Bound(sid)
    /\ sid = RoomOf(sid).host_sid
    /\ RoomOf(sid).phase = "defense"
    /\ Commit(sid, [RoomOf(sid) EXCEPT !.phase = "revote", !.revote_votes = <<>>])

on_cast_revote(sid, target) ==
    /\ Bound(sid)
    /\ RoomOf(sid).phase = "revote"
    /\ HasKey(RoomOf(sid).players, sid)
    /\ LET room == RoomOf(sid)
           voter == room.players[KeyIdx(room.players, sid)]
           cast == [room EXCEPT !.revote_votes = Put(room.revote_votes, voter.name, target)]
           eligible == player_names(room) \ room.tied_suspects
       IN /\ voter.name \notin room.tied_suspects
          /\ target \in room.tied_suspects
          /\ Commit(sid, IF eligible = DOMAIN cast.revote_votes
                         THEN _resolve_revote(cast) ELSE cast)

on_spy_guess(sid, guess) ==
    /\ Bound(sid)
    /\ RoomOf(sid).phase = "spy_guess"
    /\ sid = RoomOf(sid).spy_sid
    /\ LET room == RoomOf(sid)
           left == room.spy_guesses_remaining - 1
           guessed == [room EXCEPT !.spy_guesses_remaining = left]
       IN Commit(sid,
             IF guess = room.location
             THEN [guessed EXCEPT !.phase = "round_end",
                                  !.spy_guess_result = "spy_wins_correct_guess"]
             ELSE IF left <= 0
             THEN [guessed EXCEPT !.phase = "round_end", !.spy_guess_result = "players_win"]
             ELSE guessed)

on_new_round(sid) ==
    /\ Bound(sid)
    /\ sid = RoomOf(sid).host_sid
    /\ RoomOf(sid).round_number < MaxRound
    /\ \E room \in _deal_round(RoomOf(sid)) : Commit(sid, room)

on_return_to_lobby(sid) ==
    /\ Bound(sid)
    /\ sid = RoomOf(sid).host_sid
    /\ Commit(sid, [RoomOf(sid) EXCEPT
          !.phase = "lobby",
          !.round_number = 0,
          !.players = [i \in DOMAIN RoomOf(sid).players |->
                          [RoomOf(sid).players[i] EXCEPT
                              !.role = None, !.location = None, !.notes = <<>>,
                              !.eliminated_locations = <<>>, !.vote_target = None]]])

on_kick_player(sid, name) ==
    /\ Bound(sid)
    /\ sid = RoomOf(sid).host_sid
    /\ LET room == RoomOf(sid)
           target == player_by_name(room, name)
           target_sid == room.players[target].sid
           removed == [room EXCEPT !.players = DictDel(room.players, target_sid)]
       IN /\ target # 0
          /\ target_sid # room.host_sid
          /\ rooms' = [rooms EXCEPT ![sid_to_room[sid]] =
                IF room.phase \in {"playing", "voting", "spy_guess"}
                   /\ target_sid = room.spy_sid
                THEN [removed EXCEPT !.phase = "round_end", !.spy_guess_result = "spy_kicked"]
                ELSE removed]
          /\ sid_to_room' = Pop(sid_to_room, target_sid)
          /\ hist' = NoHist
          /\ UNCHANGED <<nextSid, threads, nh>>

----------------------------------------------------------------------------
(* Each command handler run alone on a room, early returns included: the room it
   leaves (the room itself when it returns early). now stands for time.time(). *)

\* on_start_game: the rooms it can leave
start_game(room, sid, minutes) ==
    IF sid # room.host_sid THEN {room}
    ELSE IF connected_count(room) < 3 THEN {room}
    ELSE _deal_round(IF minutes # 0 /\ 1 <= minutes /\ minutes <= 30
                     THEN [room EXCEPT !.round_minutes = minutes] ELSE room)

\* on_start_timer
start_timer(room, sid, now) ==
    IF sid # room.host_sid THEN room
    ELSE IF room.timer_paused_remaining # NoTime
    THEN [room EXCEPT !.timer_end = now + room.timer_paused_remaining,
                      !.timer_paused_remaining = NoTime]
    ELSE [room EXCEPT !.timer_end = now + room.round_minutes * 60]

\* max(0, int(end - time.time()))
remaining_at(end, now) == IF end - now < 0 THEN 0 ELSE end - now

\* a pause_timer that leaves the deadline in place
pause_timer_keeping_deadline(room, sid, now) ==
    IF sid # room.host_sid THEN room
    ELSE IF room.timer_end # NoTime /\ room.timer_end # 0
    THEN [room EXCEPT !.timer_paused_remaining = remaining_at(room.timer_end, now)]
    ELSE room

\* on_pause_timer (if room.timer_end: neither None nor 0)
pause_timer(room, sid, now) ==
    IF sid # room.host_sid THEN room
    ELSE IF room.timer_end # NoTime /\ room.timer_end # 0
    THEN [room EXCEPT !.timer_paused_remaining = remaining_at(room.timer_end, now),
                      !.timer_end = NoTime]
    ELSE room

\* the room after on_call_vote
call_vote(room) ==
    [room EXCEPT !.phase = "voting", !.votes = <<>>,
                 !.players = clear_vote_targets(room.players)]

\* on_call_vote with its guards
try_call_vote(room, sid) ==
    IF sid # room.host_sid THEN room
    ELSE IF room.phase # "playing" THEN room
    ELSE call_vote(room)

\* a start_defense_timer that gives 30 seconds whatever the number of suspects
start_defense_timer_of_30_seconds(room, sid, now) ==
    IF sid # room.host_sid \/ room.phase # "defense" THEN room
    ELSE IF room.defense_timer_paused_remaining # NoTime
    THEN [room EXCEPT !.defense_timer_end = now + room.defense_timer_paused_remaining,
                      !.defense_timer_paused_remaining = NoTime]
    ELSE [room EXCEPT !.defense_timer_end = now + 30]

\* on_start_defense_timer
start_defense_timer(room, sid, now) ==
    IF sid # room.host_sid \/ room.phase # "defense" THEN room
    ELSE IF room.defense_timer_paused_remaining # NoTime
    THEN [room EXCEPT !.defense_timer_end = now + room.defense_timer_paused_remaining,
                      !.defense_timer_paused_remaining = NoTime]
    ELSE [room EXCEPT !.defense_timer_end = now + 30 * Cardinality(room.tied_suspects)]

\* on_pause_defense_timer
pause_defense_timer(room, sid, now) ==
    IF sid # room.host_sid \/ room.phase # "defense" THEN room
    ELSE IF room.defense_timer_end # NoTime /\ room.defense_timer_end # 0
    THEN [room EXCEPT
             !.defense_timer_paused_remaining = remaining_at(room.defense_timer_end, now),
             !.defense_timer_end = NoTime]
    ELSE room

\* on_proceed_to_revote
proceed_to_revote(room, sid) ==
    IF sid # room.host_sid THEN room
    ELSE IF room.phase # "defense" THEN room
    ELSE [room EXCEPT !.phase = "revote", !.revote_votes = <<>>]

\* on_cast_revote
cast_revote(room, sid, target) ==
    IF room.phase # "revote" THEN room
    ELSE IF ~HasKey(room.players, sid) THEN room
    ELSE LET voter == room.players[KeyIdx(room.players, sid)]
             cast == [room EXCEPT !.revote_votes = Put(room.revote_votes, voter.name, target)]
             eligible == player_names(room) \ room.tied_suspects
         IN IF voter.name \in room.tied_suspects THEN room
            ELSE IF target \notin room.tied_suspects THEN room
            ELSE IF eligible = DOMAIN cast.revote_votes THEN _resolve_revote(cast)
            ELSE cast

\* on_spy_guess
spy_guess(room, sid, guess) ==
    IF room.phase # "spy_guess" THEN room
    ELSE IF sid # room.spy_sid THEN room
    ELSE LET left == room.spy_guesses_remaining - 1
             guessed == [room EXCEPT !.spy_guesses_remaining = left]
         IN IF guess = room.location
            THEN [guessed EXCEPT !.phase = "round_end",
                                 !.spy_guess_result = "spy_wins_correct_guess"]
            ELSE IF left <= 0
            THEN [guessed EXCEPT !.phase = "round_end", !.spy_guess_result = "players_win"]
            ELSE guessed

\* on_new_round: the rooms it can leave
new_round(room, sid) ==
    IF sid # room.host_sid THEN {room} ELSE _deal_round(room)

\* a return_to_lobby that any caller may issue
return_to_lobby_by_anyone(room, sid) ==
    [room EXCEPT
        !.phase = "lobby",
        !.round_number = 0,
        !.players = [i \in DOMAIN room.players |->
                        [room.players[i] EXCEPT
                            !.role = None, !.location = None, !.notes = <<>>,
                            !.eliminated_locations = <<>>, !.vote_target = None]]]

\* on_return_to_lobby
return_to_lobby(room, sid) ==
    IF sid # room.host_sid THEN room
    ELSE [room EXCEPT
            !.phase = "lobby",
            !.round_number = 0,
            !.players = [i \in DOMAIN room.players |->
                            [room.players[i] EXCEPT
                                !.role = None, !.location = None, !.notes = <<>>,
                                !.eliminated_locations = <<>>, !.vote_target = None]]]

\* on_kick_player: the room it leaves (it also drops the target from sid_to_room)
kick_player(room, sid, name) ==
    LET target == player_by_name(room, name)
        target_sid == room.players[target].sid
        removed == [room EXCEPT !.players = DictDel(room.players, target_sid)]
    IN IF sid # room.host_sid THEN room
       ELSE IF target = 0 THEN room
       ELSE IF target_sid = room.host_sid THEN room
       ELSE IF room.phase \in {"playing", "voting", "spy_guess"} /\ target_sid = room.spy_sid
       THEN [removed EXCEPT !.phase = "round_end", !.spy_guess_result = "spy_kicked"]
       ELSE removed

----------------------------------------------------------------------------
(* The session engine, one handler at a time *)

\* no handler in flight
NoThreads ==
    [cast |-> [pc |-> "idle", sid |-> NoSid, target |-> None, ballots |-> <<>>,
               res |-> NoHist.room],
     cancel |-> [pc |-> "idle", sid |-> NoSid, i |-> 0, committed |-> FALSE]]

NHIdle == [player_names |-> <<>>, location |-> None, spy_idx |-> 0, roles |-> <<>>]

Init ==
    /\ rooms = <<>>
    /\ sid_to_room = <<>>
    /\ nextSid = 1
    /\ hist = NoHist
    /\ threads = NoThreads
    /\ nh = NHIdle
    /\ steps = 0
    /\ evicted = {}
    /\ clock = ClockStart

\* the connection that sends create_room or join_room: a new one (the client sends
\* either once, right after it connects)
NewConnections == IF nextSid <= MaxSid THEN {nextSid} ELSE {}

\* one handler runs per step, up to MaxSteps steps
Tick == steps < MaxSteps /\ steps' = steps + 1 /\ UNCHANGED <<evicted, clock>>

Next ==
    \/ \E sid \in NewConnections, name \in CreatorNames, code \in Codes : Tick /\ on_create_room(sid, name, code)
    \/ \E sid \in NewConnections, name \in Names, code \in Codes : Tick /\ on_join_room(sid, name, code)
    \/ \E sid \in DOMAIN sid_to_room : Tick /\ on_disconnect(sid)
    \/ \E sid \in DOMAIN sid_to_room, minutes \in MinutesInputs : Tick /\ on_start_game(sid, minutes)
    \/ \E sid \in DOMAIN sid_to_room, target \in NoteTargets, text \in NoteTexts : Tick /\ on_update_notes(sid, target, text)
    \/ \E sid \in DOMAIN sid_to_room, loc \in ToggleInputs : Tick /\ on_toggle_location(sid, loc)
    \/ \E sid \in DOMAIN sid_to_room : Tick /\ on_call_vote(sid)
    \/ \E sid \in DOMAIN sid_to_room, target \in Names : Tick /\ on_cast_vote(sid, target)
    \/ \E sid \in DOMAIN sid_to_room : Tick /\ on_cancel_vote(sid)
    \/ \E sid \in DOMAIN sid_to_room : Tick /\ on_proceed_to_revote(sid)
    \/ \E sid \in DOMAIN sid_to_room, target \in Names : Tick /\ on_cast_revote(sid, target)
    \/ \E sid \in DOMAIN sid_to_room, guess \in GuessInputs : Tick /\ on_spy_guess(sid, guess)
    \/ \E sid \in DOMAIN sid_to_room : Tick /\ on_new_round(sid)
    \/ \E sid \in DOMAIN sid_to_room : Tick /\ on_return_to_lobby(sid)
    \/ \E sid \in DOMAIN sid_to_room, name \in Names : Tick /\ on_kick_player(sid, name)

Spec == Init /\ [][Next]_vars

----------------------------------------------------------------------------
(* The dealers on their own: the engine's deal on a lobby of any make-up, and the
   Non-host program's deal_roles *)

\* two rows of the Non-host program's LOCATION_ROLES table
NH_LOCATION_ROLES ==
    [loc \in {"Nightclub", "Museum"} |->
        IF loc = "Nightclub"
        THEN <<"DJ", "Bouncer", "Bartender", "Clubber", "Manager", "Photographer", "Bartender">>
        ELSE <<"Curator", "Tour Guide", "Security Guard", "Visitor", "Conservator", "Donor">>]

\* _assign_non_spy_roles
_assign_non_spy_roles(location, non_spy_count) ==
    LET pool == NH_LOCATION_ROLES[location]
    IN IF non_spy_count <= Len(pool)
       THEN RNG_sample(pool, non_spy_count)
       ELSE UNION {RNG_shuffle(roles) : roles \in pad_roles(pool, non_spy_count)}

\* deal_roles with its three random draws fixed; spy_idx counts from 0
deal_roles(names, location, spy_idx, non_spy_roles) ==
    [location |-> location, spy_idx |-> spy_idx,
     roles |-> [i \in DOMAIN names |->
        IF i - 1 = spy_idx THEN <<names[i], SPY, None, None>>
        ELSE <<names[i], "PLAYER", location,
               non_spy_roles[IF i - 1 < spy_idx THEN i ELSE i - 1]>>]]

\* new_round of the Non-host program:
\* self.location, self.spy_idx, self.roles = deal_roles(self.player_names)
nh_new_round ==
    /\ nh.player_names # <<>>
    /\ nh.roles = <<>>
    /\ \E location \in DOMAIN NH_LOCATION_ROLES, spy_idx \in 0..(Len(nh.player_names) - 1) :
          \E non_spy_roles \in _assign_non_spy_roles(location, Len(nh.player_names) - 1) :
             LET dealt == deal_roles(nh.player_names, location, spy_idx, non_spy_roles)
             IN nh' = [nh EXCEPT !.location = dealt.location, !.spy_idx = dealt.spy_idx,
                                 !.roles = dealt.roles]
    /\ UNCHANGED <<rooms, sid_to_room, nextSid, hist, threads, steps, evicted, clock>>

DealNames == <<"Al", "Bob", "Cy", "Di", "Ed">>
NHNames == <<"Player 1", "Player 2", "Player 3", "Player 4", "Player 5", "Player 6",
             "Player 7", "Player 8">>

\* a lobby of n players of whom those in `off` have disconnected
Lobby(code, n, off) ==
    [GameRoom(code, 1) EXCEPT !.players =
        [i \in 1..n |-> [Player(i, DealNames[i], i = 1) EXCEPT !.connected = i \notin off]]]

InitDeal ==
    /\ hist = NoHist
    /\ threads = NoThreads
    /\ steps = 0
    /\ evicted = {}
    /\ clock = ClockStart
    /\ \/ \E n \in 1..MaxPlayers, off \in SUBSET (2..MaxPlayers) :
             /\ off \subseteq 2..n
             /\ rooms = ("ROOM01" :> Lobby("ROOM01", n, off))
             /\ sid_to_room = [sid \in (1..n) \ off |-> "ROOM01"]
             /\ nextSid = n + 1
             /\ nh = NHIdle
       \/ \E n \in NHPlayerCounts :
             /\ rooms = <<>>
             /\ sid_to_room = <<>>
             /\ nextSid = 1
             /\ nh = [NHIdle EXCEPT !.player_names = SubSeq(NHNames, 1, n)]

NextDeal ==
    \/ \E sid \in DOMAIN sid_to_room, minutes \in MinutesInputs :
          on_start_game(sid, minutes) /\ UNCHANGED <<steps, evicted, clock>>
    \/ \E sid \in DOMAIN sid_to_room : on_new_round(sid) /\ UNCHANGED <<steps, evicted, clock>>
    \/ nh_new_round

SpecDeal == InitDeal /\ [][NextDeal]_vars

----------------------------------------------------------------------------
(* on_cast_vote and on_cancel_vote on two threads of the threading server: each
   handler runs statement by statement on the shared room, with no lock *)

Race(code) == rooms[code]
cv == threads.cast
cc == threads.cancel

RaceStep(room, cast, cancel) ==
    /\ rooms' = [rooms EXCEPT ![hist.code] = room]
    /\ threads' = [cast |-> cast, cancel |-> cancel]
    /\ UNCHANGED <<sid_to_room, nextSid, hist, nh, steps, evicted, clock>>

\* on_cast_vote: if room.phase != "voting": return; if sid not in room.players: return
cv_guard ==
    /\ cv.pc = "guard"
    /\ RaceStep(Race(hist.code),
                [cv EXCEPT !.pc = IF Race(hist.code).phase # "voting"
                                     \/ ~HasKey(Race(hist.code).players, cv.sid)
                                  THEN "done" ELSE "set_target"],
                cc)

\* voter.vote_target = target
cv_set_target ==
    /\ cv.pc = "set_target"
    /\ RaceStep([Race(hist.code) EXCEPT
                    !.players[KeyIdx(Race(hist.code).players, cv.sid)].vote_target = cv.target],
                [cv EXCEPT !.pc = "set_vote"], cc)

\* room.votes[voter.name] = target
cv_set_vote ==
    /\ cv.pc = "set_vote"
    /\ LET room == Race(hist.code)
           voter == room.players[KeyIdx(room.players, cv.sid)]
       IN RaceStep([room EXCEPT !.votes = Put(room.votes, voter.name, cv.target)],
                   [cv EXCEPT !.pc = "check"], cc)

\* if _check_all_voted(room): _resolve_vote(room)
cv_check ==
    /\ cv.pc = "check"
    /\ RaceStep(Race(hist.code),
                [cv EXCEPT !.pc = IF _check_all_voted(Race(hist.code))
                                  THEN "tally" ELSE "done"],
                cc)

\* _resolve_vote: tally = Counter(room.votes.values()) and the branch it selects
cv_tally ==
    /\ cv.pc = "tally"
    /\ RaceStep(Race(hist.code),
                [cv EXCEPT !.pc = "set_phase",
                           !.ballots = Race(hist.code).votes,
                           !.res = _resolve_vote(Race(hist.code))],
                cc)

\* _resolve_vote / _check_accusation: room.phase = ...
cv_set_phase ==
    /\ cv.pc = "set_phase"
    /\ RaceStep([Race(hist.code) EXCEPT !.phase = cv.res.phase],
                [cv EXCEPT !.pc = "set_rest"], cc)

\* the assignments that follow room.phase in the selected branch: room.votes = {}
\* in the tie nobody can break, the four defense fields, spy_guesses_remaining or
\* spy_guess_result (fields the branch does not assign keep their values, which
\* on_cancel_vote never writes)
cv_set_rest ==
    /\ cv.pc = "set_rest"
    /\ RaceStep([Race(hist.code) EXCEPT
                    !.votes = IF cv.res.phase = "playing" /\ cv.ballots # <<>>
                              THEN <<>> ELSE @,
                    !.tied_suspects = cv.res.tied_suspects,
                    !.defense_timer_end = cv.res.defense_timer_end,
                    !.defense_timer_paused_remaining = cv.res.defense_timer_paused_remaining,
                    !.revote_votes = cv.res.revote_votes,
                    !.spy_guesses_remaining = cv.res.spy_guesses_remaining,
                    !.spy_guess_result = cv.res.spy_guess_result],
                [cv EXCEPT !.pc = "done"], cc)

\* on_cancel_vote: if sid != room.host_sid: return; if room.phase != "voting": return
cc_guard ==
    /\ cc.pc = "guard"
    /\ RaceStep(Race(hist.code), cv,
                [cc EXCEPT !.pc = IF cc.sid # Race(hist.code).host_sid
                                     \/ Race(hist.code).phase # "voting"
                                  THEN "done" ELSE "set_phase"])

\* room.phase = "playing"
cc_set_phase ==
    /\ cc.pc = "set_phase"
    /\ RaceStep([Race(hist.code) EXCEPT !.phase = "playing"], cv,
                [cc EXCEPT !.pc = "clear_votes", !.committed = TRUE])

\* room.votes = {}
cc_clear_votes ==
    /\ cc.pc = "clear_votes"
    /\ RaceStep([Race(hist.code) EXCEPT !.votes = <<>>], cv,
                [cc EXCEPT !.pc = "clear_targets", !.i = 1])

\* for p in room.players.values(): p.vote_target = None
cc_clear_targets ==
    /\ cc.pc = "clear_targets"
    /\ IF cc.i \in DOMAIN Race(hist.code).players
       THEN RaceStep([Race(hist.code) EXCEPT !.players[cc.i].vote_target = None], cv,
                     [cc EXCEPT !.i = cc.i + 1])
       ELSE RaceStep(Race(hist.code), cv, [cc EXCEPT !.pc = "done"])

\* a round of three in its voting phase, any of the other two votes already cast,
\* with one cast_vote and the host's cancel_vote arriving together
InitRace ==
    /\ sid_to_room = [sid \in 1..3 |-> "ROOM01"]
    /\ nextSid = 4
    /\ nh = NHIdle
    /\ steps = 0
    /\ evicted = {}
    /\ clock = ClockStart
    /\ \E dealt \in _deal_round(Lobby("ROOM01", 3, {})), voter \in 1..3,
          target \in {DealNames[i] : i \in 1..3},
          earlier \in [1..3 -> {DealNames[i] : i \in 1..3} \cup {None}] :
          LET first == IF earlier[1] = None \/ voter = 1 THEN call_vote(dealt)
                       ELSE cast_vote(call_vote(dealt), 1, earlier[1])
              second == IF earlier[2] = None \/ voter = 2 THEN first
                        ELSE cast_vote(first, 2, earlier[2])
              third == IF earlier[3] = None \/ voter = 3 THEN second
                       ELSE cast_vote(second, 3, earlier[3])
          IN /\ earlier[voter] = None
             /\ rooms = ("ROOM01" :> third)
             /\ hist = [NoHist EXCEPT !.kind = "race", !.code = "ROOM01", !.room = third]
             /\ threads = [cast |-> [pc |-> "guard", sid |-> voter, target |-> target,
                                     ballots |-> <<>>, res |-> third],
                           cancel |-> [pc |-> "guard", sid |-> third.host_sid, i |-> 0,
                                       committed |-> FALSE]]

NextRace ==
    \/ cv_guard \/ cv_set_target \/ cv_set_vote \/ cv_check
    \/ cv_tally \/ cv_set_phase \/ cv_set_rest
    \/ cc_guard \/ cc_set_phase \/ cc_clear_votes \/ cc_clear_targets

SpecRace == InitRace /\ [][NextRace]_vars

----------------------------------------------------------------------------
(* One round from its deal to its end: the commands of a running round, in any
   number and order (the states of one round are finitely many, so the steps are
   not counted). The commands that deal again or reset the room start another
   round (Spec, SpecDeal) and are not taken here. *)

\* "Need at least 3 players to start."
MinPlayers == 3
\* the names sent as join name, vote target and kick target during the round:
\* the host, another player and a name nobody in the room has
RoundNames == {"Al", "Cy", "Di"}
\* one new connection per round (a reconnect)
RoundConnections == IF nextSid <= MinPlayers + 1 THEN {nextSid} ELSE {}
Clock == {1000}                        \* time.time() at the moment of a timer command

\* a round just dealt by on_start_game to a lobby of MinPlayers connected players
InitRound ==
    /\ hist = NoHist
    /\ threads = NoThreads
    /\ nh = NHIdle
    /\ steps = 0
    /\ evicted = {}
    /\ clock = ClockStart
    /\ \E n \in {MinPlayers} :
          /\ sid_to_room = [sid \in 1..n |-> "ROOM01"]
          /\ nextSid = n + 1
          /\ \E room \in start_game(Lobby("ROOM01", n, {}), 1, 0) :
                rooms = ("ROOM01" :> room)

NextRound ==
    \/ \E sid \in RoundConnections, name \in RoundNames, code \in Codes :
          UNCHANGED <<steps, evicted, clock>> /\ on_join_room(sid, name, code)
    \/ \E sid \in DOMAIN sid_to_room : UNCHANGED <<steps, evicted, clock>> /\ on_disconnect(sid)
    \/ \E sid \in DOMAIN sid_to_room : UNCHANGED <<steps, evicted, clock>> /\ on_call_vote(sid)
    \/ \E sid \in DOMAIN sid_to_room, target \in RoundNames : UNCHANGED <<steps, evicted, clock>> /\ on_cast_vote(sid, target)
    \/ \E sid \in DOMAIN sid_to_room : UNCHANGED <<steps, evicted, clock>> /\ on_cancel_vote(sid)
    \/ \E sid \in DOMAIN sid_to_room : UNCHANGED <<steps, evicted, clock>> /\ on_proceed_to_revote(sid)
    \/ \E sid \in DOMAIN sid_to_room, target \in RoundNames : UNCHANGED <<steps, evicted, clock>> /\ on_cast_revote(sid, target)
    \/ \E sid \in DOMAIN sid_to_room, guess \in GuessInputs : UNCHANGED <<steps, evicted, clock>> /\ on_spy_guess(sid, guess)
    \/ \E sid \in DOMAIN sid_to_room, name \in RoundNames : UNCHANGED <<steps, evicted, clock>> /\ on_kick_player(sid, name)

SpecRound == InitRound /\ [][NextRound]_vars

\* room.players[sid].name
name_of(room, sid) == room.players[KeyIdx(room.players, sid)].name

----------------------------------------------------------------------------
(* A round with kicks and rejoins, with the history of evicted ballots: the round
   is dealt to a lobby in which a player has disconnected and a newcomer has joined
   since, either under the same name (on_join_room compares the name with the
   connected players only) or under a name of their own. *)

EvictNames == {"Bob", "Cy"}            \* names sent as join name and kick target
EvictTargets == {"Cy"}                 \* names voted for
MaxEvictSid == 6                       \* connections ever opened in such a round
EvictConnections == IF nextSid <= MaxEvictSid THEN {nextSid} ELSE {}

\* Al creates the room, Bob joins and disconnects, `newcomer` and Cy join
EvictLobby(newcomer) ==
    [GameRoom("ROOM01", 1) EXCEPT !.players =
        <<Player(1, "Al", TRUE), [Player(2, "Bob", FALSE) EXCEPT !.connected = FALSE],
          Player(3, newcomer, FALSE), Player(4, "Cy", FALSE)>>]

\* the ballots standing in the room after the step
standing_ballots == IF "ROOM01" \in DOMAIN rooms' THEN DOMAIN rooms'["ROOM01"].votes ELSE {}

\* the ballot under the name of the player at index target is that player's own:
\* the player has cast one and no other player of that name has
own_ballot(room, target) ==
    /\ room.players[target].name \in DOMAIN room.votes
    /\ room.players[target].vote_target # None
    /\ \A i \in DOMAIN room.players \ {target} :
          room.players[i].name = room.players[target].name
             => room.players[i].vote_target = None

\* history kept along a step: a kick adds the name of a player evicted with a
\* ballot of their own, `cast` is the name whose ballot the step writes anew
Evicting(added, cast) == evicted' = ((evicted \cup added) \ cast) \cap standing_ballots

InitEvict ==
    /\ hist = NoHist
    /\ threads = NoThreads
    /\ nh = NHIdle
    /\ steps = 0
    /\ evicted = {}
    /\ clock = ClockStart
    /\ sid_to_room = [sid \in {1, 3, 4} |-> "ROOM01"]
    /\ nextSid = 5
    /\ \E newcomer \in {"Bob", "Di"} :
          \E room \in start_game(EvictLobby(newcomer), 1, 0) : rooms = ("ROOM01" :> room)

NextEvict ==
    \/ \E sid \in EvictConnections, name \in EvictNames, code \in Codes :
          UNCHANGED <<steps, clock>> /\ on_join_room(sid, name, code) /\ Evicting({}, {})
    \/ \E sid \in DOMAIN sid_to_room : UNCHANGED <<steps, clock>> /\ on_disconnect(sid) /\ Evicting({}, {})
    \/ \E sid \in DOMAIN sid_to_room : UNCHANGED <<steps, clock>> /\ on_call_vote(sid) /\ Evicting({}, {})
    \/ \E sid \in DOMAIN sid_to_room, target \in EvictTargets :
          /\ UNCHANGED <<steps, clock>>
          /\ on_cast_vote(sid, target)
          /\ Evicting({}, {name_of(RoomOf(sid), sid)})
    \/ \E sid \in DOMAIN sid_to_room, name \in EvictNames :
          /\ UNCHANGED <<steps, clock>>
          /\ on_kick_player(sid, name)
          /\ LET room == RoomOf(sid)
                 target == player_by_name(room, name)
             IN Evicting(IF own_ballot(room, target) THEN {name} ELSE {}, {})

SpecEvict == InitEvict /\ [][NextEvict]_vars

----------------------------------------------------------------------------
(* The timers: the rounds of a room of MinPlayers connected players, with the
   round timer and the defense timer commands reading a clock that only moves
   forward. No one connects or disconnects. *)

TimeSteps == {20, 100}                 \* seconds passed since the last reading
MaxClock == 1120                       \* the last reading taken
TimerTargets == {"Al", "Bob", "Di"}    \* names voted for: two players and nobody
TimerGuesses == {"Taxi"}               \* locations guessed
\* time.time() read now
Readings == {clock + d : d \in {e \in TimeSteps : clock + e <= MaxClock}}

on_start_timer(sid, now) ==
    /\ Bound(sid)
    /\ sid = RoomOf(sid).host_sid
    /\ Commit(sid, start_timer(RoomOf(sid), sid, now))
    /\ clock' = now

on_pause_timer(sid, now) ==
    /\ Bound(sid)
    /\ sid = RoomOf(sid).host_sid
    /\ Commit(sid, pause_timer(RoomOf(sid), sid, now))
    /\ clock' = now

on_start_defense_timer(sid, now) ==
    /\ Bound(sid)
    /\ sid = RoomOf(sid).host_sid
    /\ RoomOf(sid).phase = "defense"
    /\ Commit(sid, start_defense_timer(RoomOf(sid), sid, now))
    /\ clock' = now

on_pause_defense_timer(sid, now) ==
    /\ Bound(sid)
    /\ sid = RoomOf(sid).host_sid
    /\ RoomOf(sid).phase = "defense"
    /\ Commit(sid, pause_defense_timer(RoomOf(sid), sid, now))
    /\ clock' = now

InitTimer ==
    /\ hist = NoHist
    /\ threads = NoThreads
    /\ nh = NHIdle
    /\ steps = 0
    /\ evicted = {}
    /\ clock = ClockStart
    /\ sid_to_room = [sid \in 1..MinPlayers |-> "ROOM01"]
    /\ nextSid = MinPlayers + 1
    /\ rooms = ("ROOM01" :> Lobby("ROOM01", MinPlayers, {}))

NextTimer ==
    \/ \E sid \in DOMAIN sid_to_room, minutes \in MinutesInputs :
          UNCHANGED <<steps, evicted, clock>> /\ on_start_game(sid, minutes)
    \/ \E sid \in DOMAIN sid_to_room : UNCHANGED <<steps, evicted, clock>> /\ on_return_to_lobby(sid)
    \/ \E sid \in DOMAIN sid_to_room, now \in Readings :
          UNCHANGED <<steps, evicted>> /\ on_start_timer(sid, now)
    \/ \E sid \in DOMAIN sid_to_room, now \in Readings :
          UNCHANGED <<steps, evicted>> /\ on_pause_timer(sid, now)
    \/ \E sid \in DOMAIN sid_to_room : UNCHANGED <<steps, evicted, clock>> /\ on_call_vote(sid)
    \/ \E sid \in DOMAIN sid_to_room, target \in TimerTargets :
          UNCHANGED <<steps, evicted, clock>> /\ on_cast_vote(sid, target)
    \/ \E sid \in DOMAIN sid_to_room : UNCHANGED <<steps, evicted, clock>> /\ on_cancel_vote(sid)
    \/ \E sid \in DOMAIN sid_to_room, now \in Readings :
          UNCHANGED <<steps, evicted>> /\ on_start_defense_timer(sid, now)
    \/ \E sid \in DOMAIN sid_to_room, now \in Readings :
          UNCHANGED <<steps, evicted>> /\ on_pause_defense_timer(sid, now)
    \/ \E sid \in DOMAIN sid_to_room : UNCHANGED <<steps, evicted, clock>> /\ on_proceed_to_revote(sid)
    \/ \E sid \in DOMAIN sid_to_room, target \in TimerTargets :
          UNCHANGED <<steps, evicted, clock>> /\ on_cast_revote(sid, target)
    \/ \E sid \in DOMAIN sid_to_room, guess \in TimerGuesses :
          UNCHANGED <<steps, evicted, clock>> /\ on_spy_guess(sid, guess)

SpecTimer == InitTimer /\ [][NextTimer]_vars

----------------------------------------------------------------------------
(* Connections that send create_room or join_room again. The server takes both
   commands from any connection, whether or not sid_to_room already binds it to
   a room: neither handler looks the sender up before it writes the binding. *)

RebindCodes == {"ROOM01", "ROOM02"}    \* room codes _generate_room_code can draw
RebindNames == {"Bob", "Cy"}           \* data["name"] of join_room and kick_player

\* the connections that can send a command: the bound ones (a disconnect unbinds)
\* and a new one
Senders == DOMAIN sid_to_room \cup NewConnections

\* the lobby of MinPlayers left by one create_room and two join_room commands
InitRebind ==
    /\ hist = NoHist
    /\ threads = NoThreads
    /\ nh = NHIdle
    /\ steps = MinPlayers
    /\ evicted = {}
    /\ clock = ClockStart
    /\ sid_to_room = [sid \in 1..MinPlayers |-> "ROOM01"]
    /\ nextSid = MinPlayers + 1
    /\ rooms = ("ROOM01" :> Lobby("ROOM01", MinPlayers, {}))

NextRebind ==
    \/ \E sid \in Senders, name \in CreatorNames, code \in RebindCodes :
          Tick /\ on_create_room(sid, name, code)
    \/ \E sid \in Senders, name \in RebindNames, code \in RebindCodes :
          Tick /\ on_join_room(sid, name, code)
    \/ \E sid \in DOMAIN sid_to_room : Tick /\ on_disconnect(sid)
    \/ \E sid \in DOMAIN sid_to_room, minutes \in MinutesInputs :
          Tick /\ on_start_game(sid, minutes)
    \/ \E sid \in DOMAIN sid_to_room, name \in RebindNames :
          Tick /\ on_kick_player(sid, name)

SpecRebind == InitRebind /\ [][NextRebind]_vars

----------------------------------------------------------------------------
(* Claims *)

\* C1: in every room exactly one participant carries the host flag, and that
\* participant is the one host_sid identifies.
C1_ExactlyOneHostFlag ==
    \A code \in DOMAIN rooms :
        LET room == rooms[code]
            flagged == {i \in DOMAIN room.players : room.players[i].is_host}
        IN /\ Cardinality(flagged) = 1
           /\ \A i \in flagged : room.players[i].sid = room.host_sid

\* C2: while a round is running exactly one participant holds the role SPY and is
\* the room's recorded spy, and every other connected participant holds a non-SPY
\* role and the round's location.  (Stated for the phases of a running round:
\* round_end after the spy was kicked has no spy by the spec's own kick rule.)
C2_OneSpyOthersDealt ==
    \A code \in DOMAIN rooms :
        LET room == rooms[code]
            spies == {i \in DOMAIN room.players : room.players[i].role = SPY}
        IN room.phase \in {"playing", "voting", "defense", "revote", "spy_guess"} =>
              /\ Cardinality(spies) = 1
              /\ \A i \in spies : room.players[i].sid = room.spy_sid
              /\ \A i \in DOMAIN room.players \ spies :
                    room.players[i].connected =>
                        /\ room.players[i].role \notin {SPY, None}
                        /\ room.players[i].location = room.location

\* C3: no two connected participants of a room have names equal ignoring case.
C3_ConnectedNamesUnique ==
    \A code \in DOMAIN rooms :
        LET room == rooms[code]
        IN \A i, j \in DOMAIN room.players :
              (i # j /\ room.players[i].connected /\ room.players[j].connected)
                  => lower(room.players[i].name) # lower(room.players[j].name)
\* a projection that hands every player the whole room
_get_player_state_of_whole_room(room, p) == [room |-> room, myName |-> p.name]

\* _get_player_state: the projection built for player p of room
_get_player_state(room, p) ==
    LET base == [roomCode |-> room.code, phase |-> room.phase,
                 players |-> [i \in DOMAIN room.players |->
                                [name |-> room.players[i].name,
                                 isHost |-> room.players[i].is_host,
                                 connected |-> room.players[i].connected]],
                 roundNumber |-> room.round_number, roundMinutes |-> room.round_minutes,
                 timerEnd |-> room.timer_end,
                 timerPausedRemaining |-> room.timer_paused_remaining,
                 isHost |-> p.is_host, myName |-> p.name]
        round == IF room.phase \in {"playing", "voting", "defense", "revote",
                                    "spy_guess", "round_end"}
                 THEN [isSpy |-> p.sid = room.spy_sid,
                       allLocations |-> DOMAIN LOCATION_ROLES,
                       eliminatedLocations |-> p.eliminated_locations,
                       role |-> IF p.sid = room.spy_sid THEN SPY ELSE p.role,
                       location |-> IF p.sid = room.spy_sid THEN None ELSE p.location,
                       notes |-> p.notes]
                 ELSE <<>>
        voting == IF room.phase = "voting"
                  THEN [votedPlayers |-> DOMAIN room.votes, myVote |-> p.vote_target]
                  ELSE <<>>
        defense == IF room.phase = "defense"
                   THEN [tiedSuspects |-> room.tied_suspects,
                         isSuspect |-> p.name \in room.tied_suspects,
                         defenseTimerEnd |-> room.defense_timer_end,
                         defenseTimerPausedRemaining |-> room.defense_timer_paused_remaining,
                         firstRoundVotes |-> room.votes]
                   ELSE <<>>
        revote == IF room.phase = "revote"
                  THEN [tiedSuspects |-> room.tied_suspects,
                        isSuspect |-> p.name \in room.tied_suspects,
                        canRevote |-> p.name \notin room.tied_suspects,
                        revoteVotedPlayers |-> DOMAIN room.revote_votes,
                        myRevote |-> IF p.name \in DOMAIN room.revote_votes
                                     THEN room.revote_votes[p.name] ELSE None]
                  ELSE <<>>
        guess == IF room.phase = "spy_guess"
                 THEN [spyGuessesRemaining |-> room.spy_guesses_remaining,
                       canGuess |-> p.sid = room.spy_sid]
                 ELSE <<>>
        over == IF room.phase = "round_end"
                THEN [spyName |-> IF HasKey(room.players, room.spy_sid)
                                  THEN room.players[KeyIdx(room.players, room.spy_sid)].name
                                  ELSE "Unknown",
                      actualLocation |-> room.location,
                      spyGuessResult |-> room.spy_guess_result,
                      votes |-> room.votes]
                ELSE <<>>
    IN base @@ round @@ voting @@ defense @@ revote @@ guess @@ over

\* the commands as steps of the engine
StartGameStep == \E sid \in DOMAIN sid_to_room, minutes \in MinutesInputs :
                    on_start_game(sid, minutes)
NewRoundStep == \E sid \in DOMAIN sid_to_room : on_new_round(sid)
ReturnToLobbyStep == \E sid \in DOMAIN sid_to_room : on_return_to_lobby(sid)

\* the round data of a room: location, spy, roles, ballots and round counter
round_data(room) ==
    <<room.location, room.spy_sid, room.votes, room.revote_votes, room.round_number,
      [i \in DOMAIN room.players |->
          <<room.players[i].role, room.players[i].location, room.players[i].vote_target>>]>>

\* C5: a deal happens only by start_game in phase lobby or by new_round in phase
\* round_end; start_game or new_round in any other phase leaves the round's
\* location, spy, roles, ballots and round counter unchanged.
C5_DealOnlyFromLobbyOrRoundEnd ==
    [][\A code \in DOMAIN rooms \cap DOMAIN rooms' :
          /\ rooms'[code].round_number = rooms[code].round_number + 1
                => \/ StartGameStep /\ rooms[code].phase = "lobby"
                   \/ NewRoundStep /\ rooms[code].phase = "round_end"
          /\ (StartGameStep /\ rooms[code].phase # "lobby")
                => round_data(rooms'[code]) = round_data(rooms[code])
          /\ (NewRoundStep /\ rooms[code].phase # "round_end")
                => round_data(rooms'[code]) = round_data(rooms[code])]_vars

\* the edges the phase may move along
PhaseEdges ==
    {<<"lobby", "playing">>, <<"playing", "voting">>, <<"voting", "playing">>,
     <<"voting", "defense">>, <<"voting", "spy_guess">>, <<"voting", "round_end">>,
     <<"defense", "revote">>, <<"revote", "spy_guess">>, <<"revote", "round_end">>,
     <<"spy_guess", "round_end">>, <<"playing", "round_end">>,
     <<"round_end", "playing">>, <<"round_end", "lobby">>}

\* C6: the phase changes only along PhaseEdges, and round_end is left only by
\* new_round or return_to_lobby.
C6_PhaseEdgesOnly ==
    [][\A code \in DOMAIN rooms \cap DOMAIN rooms' :
          rooms'[code].phase # rooms[code].phase =>
              /\ <<rooms[code].phase, rooms'[code].phase>> \in PhaseEdges
              /\ rooms[code].phase = "round_end" => NewRoundStep \/ ReturnToLobbyStep]_vars

\* C6 (initial phase): a room is created in phase lobby.
C6_StartsInLobby ==
    [][\A code \in DOMAIN rooms' \ DOMAIN rooms : rooms'[code].phase = "lobby"]_vars

\* C7: a participant who disconnects and at once joins again under the same name
\* while the phase is not lobby has the same role, location, notes, eliminated
\* locations and vote choice, and the room the same ballots, phase, round location
\* and round counter, as before the disconnect.
C7_ReconnectRestores ==
    hist.kind = "rejoin" =>
        LET room == rooms[hist.code]
            p == room.players[KeyIdx(room.players, hist.sid)]
        IN /\ p.role = hist.player.role
           /\ p.location = hist.player.location
           /\ p.notes = hist.player.notes
           /\ p.eliminated_locations = hist.player.eliminated_locations
           /\ p.vote_target = hist.player.vote_target
           /\ room.votes = hist.room.votes
           /\ room.revote_votes = hist.room.revote_votes
           /\ room.phase = hist.room.phase
           /\ room.location = hist.room.location
           /\ room.round_number = hist.room.round_number

\* C8: after the participant dealt as spy disconnects and reconnects under the same
\* name during the round, an accusation naming them leads to spy_guess, their new
\* connection is the one spy_guess accepts, and their projection says isSpy.
C8_SpyStillSpyAfterReconnect ==
    (hist.kind = "rejoin" /\ hist.player.sid = hist.room.spy_sid) =>
        LET room == rooms[hist.code]
            p == room.players[KeyIdx(room.players, hist.sid)]
        IN /\ _check_accusation(room, hist.player.name).phase = "spy_guess"
           /\ hist.sid = room.spy_sid
           /\ _get_player_state(room, p).isSpy
\* the connected players of a room, the dealt non-spies among them, and their roles
connected_of(room) == {i \in DOMAIN room.players : room.players[i].connected}
non_spies_of(room) == {i \in connected_of(room) : room.players[i].sid # room.spy_sid}
\* the Non-host deal's non-spy entries
nh_non_spies == {i \in DOMAIN nh.roles : nh.roles[i][2] # SPY}

\* C9 for the engine's deal (src/app.py)
C9_AppDeal ==
    \A code \in DOMAIN rooms :
        LET room == rooms[code]
            dealt == connected_of(room)
            spies == {i \in dealt : room.players[i].role = SPY}
            pool == LOCATION_ROLES[room.location]
        IN (room.phase = "playing" /\ Len(pool) >= Cardinality(dealt) - 1) =>
              /\ Cardinality(spies) = 1
              /\ \A i \in spies : room.players[i].location = None
              /\ \A i \in dealt \ spies :
                    /\ room.players[i].role \in Range(pool)
                    /\ room.players[i].location = room.location
              /\ \A i, j \in dealt \ spies :
                    i # j => room.players[i].role # room.players[j].role

\* C9 for the Non-host program's deal_roles
C9_NonHostDeal ==
    LET spies == DOMAIN nh.roles \ nh_non_spies
        pool == NH_LOCATION_ROLES[nh.location]
    IN (nh.roles # <<>> /\ Len(pool) >= Len(nh.roles) - 1) =>
          /\ Cardinality(spies) = 1
          /\ \A i \in spies : nh.roles[i][3] = None
          /\ \A i \in nh_non_spies :
                /\ nh.roles[i][4] \in Range(pool)
                /\ nh.roles[i][3] = nh.location
          /\ \A i, j \in nh_non_spies : i # j => nh.roles[i][4] # nh.roles[j][4]

\* C9: in every deal at a location whose pool has at least n-1 roles exactly one
\* participant is the spy, the spy's location is empty, and the other n-1
\* participants receive pairwise distinct roles of the location's pool together
\* with the location.
C9_DistinctRolesWhenPoolSuffices == C9_AppDeal /\ C9_NonHostDeal

\* C10: in every deal at a location whose pool has fewer than n-1 roles the n-1
\* non-spies receive n-1 roles, all from the pool, and every role of the pool
\* appears among them at least once.
C10_PoolUsedUpBeforeRepeats ==
    /\ \A code \in DOMAIN rooms :
          LET room == rooms[code]
              pool == LOCATION_ROLES[room.location]
              given == {room.players[i].role : i \in non_spies_of(room)}
          IN (room.phase = "playing" /\ Len(pool) < Cardinality(connected_of(room)) - 1) =>
                /\ Cardinality(non_spies_of(room)) = Cardinality(connected_of(room)) - 1
                /\ given = Range(pool)
    /\ LET pool == NH_LOCATION_ROLES[nh.location]
           given == {nh.roles[i][4] : i \in nh_non_spies}
       IN (nh.roles # <<>> /\ Len(pool) < Len(nh.roles) - 1) =>
             /\ Cardinality(nh_non_spies) = Len(nh.roles) - 1
             /\ given = Range(pool)

\* a deal of the engine in which a pool of two roles is spread over three non-spies
C10_Witness_App ==
    \E code \in DOMAIN rooms :
        /\ rooms[code].phase = "playing"
        /\ Cardinality(connected_of(rooms[code])) = 4
        /\ Len(LOCATION_ROLES[rooms[code].location]) = 2
        /\ {rooms[code].players[i].role : i \in non_spies_of(rooms[code])}
              = Range(LOCATION_ROLES[rooms[code].location])
\* both handlers have returned
race_over == cv.pc = "done" /\ cc.pc = "done"

\* C4: when on_cast_vote and on_cancel_vote run interleaved on one room, the room
\* they leave is the room left by running the two one after the other in some
\* order; once cancel_vote has committed the return to playing the room does not
\* end in defense, spy_guess or round_end; and it never ends in playing with a
\* non-empty ballot map.
C4_RaceIsSerial ==
    race_over =>
        LET room == Race(hist.code)
        IN /\ room \in {cancel_vote(cast_vote(hist.room, cv.sid, cv.target), cc.sid),
                        cast_vote(cancel_vote(hist.room, cc.sid), cv.sid, cv.target)}
           /\ cc.committed => room.phase \notin {"defense", "spy_guess", "round_end"}
           /\ ~(room.phase = "playing" /\ room.votes # <<>>)

\* the room of the round and the name a connection plays under
TheRoom == rooms["ROOM01"]
\* every connected participant's name has a ballot in the map
ballot_complete(room, ballots) == player_names(room) = DOMAIN ballots

with_ballot(ballots, name, target) ==
    [n \in DOMAIN ballots \cup {name} |-> IF n = name THEN target ELSE ballots[n]]
\* how many ballots name a target, and the targets no other target beats
ballots_for(ballots, target) == Cardinality({n \in DOMAIN ballots : ballots[n] = target})
most_voted(ballots) ==
    {t \in Range(ballots) :
        ~\E u \in Range(ballots) : ballots_for(ballots, u) > ballots_for(ballots, t)}

\* C12: when a vote resolves with more than one target at the maximum count and
\* some connected participant is not among the tied names, the phase becomes
\* defense, the suspects are exactly the tied targets, the defense timer is unset
\* and the revote ballots are empty.
C12_TieWithRevotersEntersDefense ==
    [][\A sid \in DOMAIN sid_to_room, target \in RoundNames :
          on_cast_vote(sid, target) =>
             LET room == RoomOf(sid)
                 after == rooms'[sid_to_room[sid]]
                 ballots == with_ballot(room.votes, name_of(room, sid), target)
                 tied == most_voted(ballots)
             IN (/\ ballot_complete(room, ballots)
                 /\ Cardinality(tied) > 1
                 /\ \E n \in player_names(room) : n \notin tied)
                => /\ after.phase = "defense"
                   /\ after.tied_suspects = tied
                   /\ after.defense_timer_end = NoTime
                   /\ after.defense_timer_paused_remaining = NoTime
                   /\ after.revote_votes = <<>>]_vars

\* a tied vote has put the room in defense, with a connected participant who is no suspect
C12_Witness ==
    /\ "ROOM01" \in DOMAIN rooms
    /\ TheRoom.phase = "defense"
    /\ TheRoom.tied_suspects = most_voted(TheRoom.votes)
    /\ Cardinality(TheRoom.tied_suspects) = 2
    /\ ballot_complete(TheRoom, TheRoom.votes)
    /\ player_names(TheRoom) \ TheRoom.tied_suspects # {}

\* C13: when a vote resolves with more than one target at the maximum count and
\* every connected participant is among the tied names, the phase returns to
\* playing, the ballot map is empty, the suspect list is empty and the round
\* outcome stays unset.
C13_TieWithoutRevotersReturnsToPlaying ==
    [][\A sid \in DOMAIN sid_to_room, target \in RoundNames :
          on_cast_vote(sid, target) =>
             LET room == RoomOf(sid)
                 after == rooms'[sid_to_room[sid]]
                 ballots == with_ballot(room.votes, name_of(room, sid), target)
                 tied == most_voted(ballots)
             IN (/\ ballot_complete(room, ballots)
                 /\ Cardinality(tied) > 1
                 /\ player_names(room) \subseteq tied)
                => /\ after.phase = "playing"
                   /\ after.votes = <<>>
                   /\ after.tied_suspects = {}
                   /\ after.spy_guess_result = None]_vars

\* a vote in which every connected participant is tied has just sent the room back
\* to playing: the ballots are gone and the vote choices still show the tie
C13_Witness ==
    /\ "ROOM01" \in DOMAIN rooms
    /\ TheRoom.phase = "playing"
    /\ TheRoom.votes = <<>>
    /\ TheRoom.tied_suspects = {}
    /\ \A i \in DOMAIN TheRoom.players :
          TheRoom.players[i].connected => TheRoom.players[i].vote_target # None
    /\ player_names(TheRoom) \subseteq
          {TheRoom.players[i].vote_target :
              i \in {j \in DOMAIN TheRoom.players : TheRoom.players[j].connected}}
    /\ Cardinality(player_names(TheRoom)) > 1

\* the names of the participants who hold the spy role in the round
spy_names(room) == {room.players[i].name : i \in {j \in DOMAIN room.players : room.players[j].role = SPY}}
\* the accusation check as the rules state it
accusation_outcome_ok(room, after, accused) ==
    IF accused \in spy_names(room)
    THEN after.phase = "spy_guess" /\ after.spy_guesses_remaining = 2
    ELSE after.phase = "round_end" /\ after.spy_guess_result = "spy_wins_wrong_vote"

\* C14: when a vote or a revote resolves with exactly one target at the maximum
\* count, the phase becomes spy_guess with 2 guesses left if that name is the name
\* of the round's spy, and round_end with the outcome spy_wins_wrong_vote otherwise.
C14_SingleAccusation ==
    [][/\ \A sid \in DOMAIN sid_to_room, target \in RoundNames :
             on_cast_vote(sid, target) =>
                LET room == RoomOf(sid)
                    ballots == with_ballot(room.votes, name_of(room, sid), target)
                IN (ballot_complete(room, ballots) /\ Cardinality(most_voted(ballots)) = 1)
                   => \A accused \in most_voted(ballots) :
                         accusation_outcome_ok(room, rooms'[sid_to_room[sid]], accused)
       /\ \A sid \in DOMAIN sid_to_room, target \in RoundNames :
             on_cast_revote(sid, target) =>
                LET room == RoomOf(sid)
                    ballots == with_ballot(room.revote_votes, name_of(room, sid), target)
                IN (/\ player_names(room) \ room.tied_suspects = DOMAIN ballots
                    /\ Cardinality(most_voted(ballots)) = 1)
                   => \A accused \in most_voted(ballots) :
                         accusation_outcome_ok(room, rooms'[sid_to_room[sid]], accused)]_vars

\* C15: when a revote resolves with more than one suspect at the maximum count the
\* phase becomes round_end with the outcome spy_wins_revote_tie, whoever is tied
\* and whether or not the spy is among them; the room does not enter defense again.
C15_RevoteTieEndsRound ==
    [][\A sid \in DOMAIN sid_to_room, target \in RoundNames :
          on_cast_revote(sid, target) =>
             LET room == RoomOf(sid)
                 after == rooms'[sid_to_room[sid]]
                 ballots == with_ballot(room.revote_votes, name_of(room, sid), target)
             IN (/\ player_names(room) \ room.tied_suspects = DOMAIN ballots
                 /\ Cardinality(most_voted(ballots)) > 1)
                => /\ after.phase = "round_end"
                   /\ after.spy_guess_result = "spy_wins_revote_tie"]_vars

\* a revote has ended in a tie between two suspects
C15_Witness ==
    /\ "ROOM01" \in DOMAIN rooms
    /\ TheRoom.phase = "round_end"
    /\ TheRoom.spy_guess_result = "spy_wins_revote_tie"
    /\ Cardinality(most_voted(TheRoom.revote_votes)) = 2
    /\ most_voted(TheRoom.revote_votes) \subseteq TheRoom.tied_suspects

\* the tied revote with the spy among the tied suspects, and with the spy not among them
C15_Witness_SpyTied ==
    C15_Witness /\ spy_names(TheRoom) \cap most_voted(TheRoom.revote_votes) # {}
C15_Witness_SpyNotTied ==
    C15_Witness /\ spy_names(TheRoom) \cap most_voted(TheRoom.revote_votes) = {}

\* the connections of the connected participants who hold the spy role
spy_connections(room) ==
    {room.players[i].sid :
        i \in {j \in DOMAIN room.players : room.players[j].role = SPY /\ room.players[j].connected}}

\* what one guess must do to a room in phase spy_guess
guess_outcome_ok(room, after, guess) ==
    /\ after.spy_guesses_remaining = room.spy_guesses_remaining - 1
    /\ IF guess = room.location
       THEN after.phase = "round_end" /\ after.spy_guess_result = "spy_wins_correct_guess"
       ELSE IF room.spy_guesses_remaining - 1 > 0
       THEN after.phase = "spy_guess" /\ after.spy_guess_result = room.spy_guess_result
       ELSE after.phase = "round_end" /\ after.spy_guess_result = "players_win"

\* C16: in phase spy_guess each guess by the spy decrements the remaining guesses; a
\* guess equal to the round location ends the round in the spy's favour; a wrong
\* guess with guesses left keeps the phase; a wrong guess that leaves none ends the
\* round in the players' favour, so that two wrong guesses in a row after an
\* accusation end with the players winning.
C16_SpyGuess ==
    \A code \in DOMAIN rooms :
        rooms[code].phase = "spy_guess" =>
           \A sid \in spy_connections(rooms[code]), guess \in GuessInputs :
              LET room == rooms[code]
                  after == spy_guess(room, sid, guess)
              IN /\ guess_outcome_ok(room, after, guess)
                 /\ (room.spy_guesses_remaining = 2 /\ guess # room.location) =>
                       \A second \in GuessInputs \ {room.location} :
                          LET last == spy_guess(after, sid, second)
                          IN last.phase = "round_end" /\ last.spy_guess_result = "players_win"

\* the same for the connection recorded as the spy's
C16_SpyGuessOfRecordedSpy ==
    \A code \in DOMAIN rooms :
        rooms[code].phase = "spy_guess" =>
           \A sid \in spy_connections(rooms[code]) \cap {rooms[code].spy_sid},
              guess \in GuessInputs :
                 guess_outcome_ok(rooms[code], spy_guess(rooms[code], sid, guess), guess)

\* the connected participants who may vote in the revote
revoters(room) == player_names(room) \ room.tied_suspects

\* C17, the recorded ballots: every revote ballot has a voter who is not a tied
\* suspect and a target who is one.
C17_RevoteBallotsWellFormed ==
    \A code \in DOMAIN rooms :
        \A voter \in DOMAIN rooms[code].revote_votes :
            /\ voter \notin rooms[code].tied_suspects
            /\ rooms[code].revote_votes[voter] \in rooms[code].tied_suspects

\* C17, the rejections: a cast_revote by a suspect or for a non-suspect leaves the
\* room (its revote ballots and phase included) as it was.
C17_RevoteRejections ==
    \A code \in DOMAIN rooms :
        rooms[code].phase = "revote" =>
           \A i \in DOMAIN rooms[code].players, target \in RoundNames :
              (\/ rooms[code].players[i].name \in rooms[code].tied_suspects
               \/ target \notin rooms[code].tied_suspects)
              => cast_revote(rooms[code], rooms[code].players[i].sid, target) = rooms[code]

\* C17, the resolution: when after an accepted cast_revote every connected
\* non-suspect participant has a ballot, the phase has left revote.
C17_RevoteResolvesWhenAllVoted ==
    \A code \in DOMAIN rooms :
        rooms[code].phase = "revote" =>
           \A i \in DOMAIN rooms[code].players, target \in rooms[code].tied_suspects :
              LET room == rooms[code]
                  after == cast_revote(room, room.players[i].sid, target)
              IN (/\ room.players[i].connected
                  /\ room.players[i].name \notin room.tied_suspects
                  /\ revoters(room) \subseteq DOMAIN after.revote_votes)
                 => after.phase # "revote"

\* C17: in every reachable state the revote ballots are well formed, a cast_revote by
\* a suspect or for a non-suspect is rejected and changes nothing, and a cast_revote
\* after which every connected non-suspect participant has a ballot resolves the
\* revote, so that the phase leaves revote.
C17_Revote ==
    C17_RevoteBallotsWellFormed /\ C17_RevoteRejections /\ C17_RevoteResolvesWhenAllVoted

\* C18: a command issued in a phase it is not valid for leaves the whole room as it
\* was: cast_vote and cancel_vote outside voting, call_vote outside playing,
\* start_defense_timer, pause_defense_timer and proceed_to_revote outside defense,
\* cast_revote outside revote, spy_guess outside spy_guess, whoever issues it.
C18_WrongPhaseChangesNothing ==
    \A sid \in DOMAIN sid_to_room :
        Bound(sid) =>
           LET room == RoomOf(sid)
           IN /\ room.phase # "voting" =>
                    /\ \A target \in Names : cast_vote(room, sid, target) = room
                    /\ cancel_vote(room, sid) = room
              /\ room.phase # "playing" => try_call_vote(room, sid) = room
              /\ room.phase # "defense" =>
                    /\ \A now \in Clock :
                          /\ start_defense_timer(room, sid, now) = room
                          /\ pause_defense_timer(room, sid, now) = room
                    /\ proceed_to_revote(room, sid) = room
              /\ room.phase # "revote" =>
                    \A target \in Names : cast_revote(room, sid, target) = room
              /\ room.phase # "spy_guess" =>
                    \A guess \in GuessInputs : spy_guess(room, sid, guess) = room

\* the host is connected in a defense phase with ballots on record: a cancel_vote,
\* call_vote or cast_vote now is out of phase, and accepted it would change the room
C18_Witness ==
    \E sid \in DOMAIN sid_to_room :
        /\ Bound(sid)
        /\ RoomOf(sid).phase = "defense"
        /\ sid = RoomOf(sid).host_sid
        /\ RoomOf(sid).votes # <<>>
        /\ cancel_vote(RoomOf(sid), sid) = RoomOf(sid)
        /\ cancel_vote([RoomOf(sid) EXCEPT !.phase = "voting"], sid).votes = <<>>

\* room.players[sid]
player_of(room, sid) == room.players[KeyIdx(room.players, sid)]

\* C19: a command from a caller without the authority for it leaves the whole room
\* as it was: start_game, start_timer, pause_timer, call_vote, cancel_vote,
\* start_defense_timer, pause_defense_timer, proceed_to_revote, new_round,
\* return_to_lobby and kick_player from a participant who is not the current host,
\* and spy_guess from a participant whose role is not the spy (the count of
\* remaining guesses stays as it was).
C19_NoAuthorityChangesNothing ==
    \A sid \in DOMAIN sid_to_room :
        Bound(sid) =>
           LET room == RoomOf(sid)
           IN /\ (HasKey(room.players, sid) /\ sid # room.host_sid) =>
                    /\ \A minutes \in MinutesInputs : start_game(room, sid, minutes) = {room}
                    /\ \A now \in Clock :
                          /\ start_timer(room, sid, now) = room
                          /\ pause_timer(room, sid, now) = room
                          /\ start_defense_timer(room, sid, now) = room
                          /\ pause_defense_timer(room, sid, now) = room
                    /\ try_call_vote(room, sid) = room
                    /\ cancel_vote(room, sid) = room
                    /\ proceed_to_revote(room, sid) = room
                    /\ new_round(room, sid) = {room}
                    /\ return_to_lobby(room, sid) = room
                    /\ \A name \in Names : kick_player(room, sid, name) = room
              /\ (HasKey(room.players, sid) /\ player_of(room, sid).role # SPY) =>
                    \A guess \in GuessInputs :
                       /\ spy_guess(room, sid, guess) = room
                       /\ spy_guess(room, sid, guess).spy_guesses_remaining
                             = room.spy_guesses_remaining

\* in the spy_guess phase a connected participant is neither the host nor the spy,
\* while the same commands from the host and from the spy would change the room
C19_Witness ==
    \E sid \in DOMAIN sid_to_room :
        /\ Bound(sid)
        /\ HasKey(RoomOf(sid).players, sid)
        /\ RoomOf(sid).phase = "spy_guess"
        /\ sid # RoomOf(sid).host_sid
        /\ player_of(RoomOf(sid), sid).role # SPY
        /\ player_of(RoomOf(sid), sid).connected
        /\ return_to_lobby(RoomOf(sid), RoomOf(sid).host_sid) # RoomOf(sid)
        /\ \A guess \in GuessInputs :
              spy_guess(RoomOf(sid), RoomOf(sid).spy_sid, guess) # RoomOf(sid)

\* what a kick of the participant at index target must do to a room, the spy being
\* the participant is_spy says
kick_outcome_ok(room, after, target, is_spy) ==
    /\ ~HasKey(after.players, room.players[target].sid)
    /\ Len(after.players) = Len(room.players) - 1
    /\ IF is_spy /\ room.phase \in {"playing", "voting", "spy_guess"}
       THEN after.phase = "round_end" /\ after.spy_guess_result = "spy_kicked"
       ELSE after.phase = room.phase /\ after.spy_guess_result = room.spy_guess_result

\* C20: a kick_player by the host removes the named participant from the room in any
\* phase; if the removed participant is the round's spy and the phase is playing,
\* voting or spy_guess the phase becomes round_end with the outcome spy_kicked,
\* otherwise the phase and the outcome stay as they were.
C20_KickRemovesAndEndsRoundOnSpy ==
    [][\A sid \in DOMAIN sid_to_room, name \in RoundNames :
          on_kick_player(sid, name) =>
             LET room == RoomOf(sid)
                 target == player_by_name(room, name)
             IN /\ kick_outcome_ok(room, rooms'[sid_to_room[sid]], target,
                                   room.players[target].role = SPY)
                /\ room.players[target].sid \notin DOMAIN sid_to_room']_vars

\* the same with the spy taken to be the connection recorded at the deal (spy_sid)
C20_KickOfRecordedSpy ==
    [][\A sid \in DOMAIN sid_to_room, name \in RoundNames :
          on_kick_player(sid, name) =>
             LET room == RoomOf(sid)
                 target == player_by_name(room, name)
             IN /\ kick_outcome_ok(room, rooms'[sid_to_room[sid]], target,
                                   room.players[target].sid = room.spy_sid)
                /\ room.players[target].sid \notin DOMAIN sid_to_room']_vars

\* C21: the host cannot remove itself with kick_player (a kick whose target is the
\* host's own record changes nothing, and the host is still in the room after any
\* kick), and a participant removed by kick_player is gone for good: the record
\* with the role, location and notes leaves the room, and no later join_room under
\* the evicted name while the round is on is bound to a ballot the evicted cast.
C21_EvictedGoneForGood ==
    [][/\ \A sid \in DOMAIN sid_to_room, name \in EvictNames \cup {"Al"} :
             (Bound(sid) /\ sid = RoomOf(sid).host_sid
                /\ player_by_name(RoomOf(sid), name) # 0
                /\ RoomOf(sid).players[player_by_name(RoomOf(sid), name)].sid = sid)
             => kick_player(RoomOf(sid), sid, name) = RoomOf(sid)
       /\ \A sid \in DOMAIN sid_to_room, name \in EvictNames :
             on_kick_player(sid, name) =>
                LET room == RoomOf(sid)
                    target == player_by_name(room, name)
                    after == rooms'[sid_to_room[sid]]
                IN /\ HasKey(after.players, sid) /\ after.host_sid = sid
                   /\ ~HasKey(after.players, room.players[target].sid)
                   /\ room.players[target].sid \notin DOMAIN sid_to_room'
       /\ \A sid \in EvictConnections, name \in EvictNames, code \in Codes :
             (on_join_room(sid, name, code) /\ rooms[code].phase # "lobby")
                => name \notin evicted]_vars

\* the same in the rounds whose newcomer joined under a name of their own ("Di"
\* is never kicked), so that no two players bear the same name
C21_EvictedGoneForGoodUniqueNames ==
    [][\A sid \in EvictConnections, name \in EvictNames, code \in Codes :
          (/\ on_join_room(sid, name, code)
           /\ rooms[code].phase # "lobby"
           /\ \E i \in DOMAIN rooms[code].players : rooms[code].players[i].name = "Di")
             => name \notin evicted]_vars

\* some participant of the room is connected
someone_connected(room) == \E i \in DOMAIN room.players : room.players[i].connected

\* C22: a room is in the registry exactly as long as a participant of it is
\* connected: every room of the registry has a connected participant; a room enters
\* the registry only by create_room, with its creator connected and host; a room
\* leaves it only by the disconnect of its last connected participant, in that step.
C22_RoomLivesWhileSomeoneConnected ==
    [][/\ \A code \in DOMAIN rooms' : someone_connected(rooms'[code])
       /\ \A code \in DOMAIN rooms' \ DOMAIN rooms :
             \E sid \in NewConnections, name \in CreatorNames :
                /\ on_create_room(sid, name, code)
                /\ rooms'[code].host_sid = sid
                /\ rooms'[code].players = <<Player(sid, name, TRUE)>>
                /\ rooms'[code].players[1].connected
       /\ \A code \in DOMAIN rooms \ DOMAIN rooms' :
             \E sid \in DOMAIN sid_to_room :
                /\ on_disconnect(sid)
                /\ sid_to_room[sid] = code
                /\ \A i \in DOMAIN rooms[code].players :
                      rooms[code].players[i].connected <=> rooms[code].players[i].sid = sid
       /\ \A sid \in DOMAIN sid_to_room :
             (/\ on_disconnect(sid)
              /\ Bound(sid)
              /\ \A i \in DOMAIN RoomOf(sid).players :
                    RoomOf(sid).players[i].connected => RoomOf(sid).players[i].sid = sid)
             => sid_to_room[sid] \notin DOMAIN rooms']_vars

\* the last connected participant of a room of several has just disconnected and
\* the room is gone
C22_Witness ==
    /\ hist.kind = "disc"
    /\ hist.code \notin DOMAIN rooms
    /\ Len(hist.room.players) >= 2
    /\ someone_connected(hist.room)

\* the place of a name in the order in which the players of the round joined the
\* room (Lobby seats them in the order of DealNames)
joined_rank(name) == CHOOSE i \in DOMAIN DealNames : DealNames[i] = name

\* the connected participants other than the one at connection sid
remaining(room, sid) ==
    {i \in DOMAIN room.players : room.players[i].connected /\ room.players[i].sid # sid}

\* C23: when the host disconnects while other participants are connected, the new
\* host is the connected participant who joined the room earliest among those
\* remaining, also when participants have disconnected and reconnected since.
C23_HostPassesToEarliestJoined ==
    [][\A sid \in DOMAIN sid_to_room :
          (on_disconnect(sid) /\ sid = RoomOf(sid).host_sid
             /\ HasKey(RoomOf(sid).players, sid) /\ remaining(RoomOf(sid), sid) # {})
          => LET room == RoomOf(sid)
             IN \E i \in remaining(room, sid) :
                   /\ rooms'[sid_to_room[sid]].host_sid = room.players[i].sid
                   /\ \A j \in remaining(room, sid) :
                         joined_rank(room.players[i].name) <= joined_rank(room.players[j].name)]_vars

\* the same while nobody has reconnected (every player is on the connection they
\* joined with)
C23_HostPassesToEarliestJoinedNoReconnect ==
    [][\A sid \in DOMAIN sid_to_room :
          (on_disconnect(sid) /\ sid = RoomOf(sid).host_sid
             /\ HasKey(RoomOf(sid).players, sid) /\ remaining(RoomOf(sid), sid) # {}
             /\ \A i \in DOMAIN RoomOf(sid).players : RoomOf(sid).players[i].sid <= MinPlayers)
          => LET room == RoomOf(sid)
             IN \E i \in remaining(room, sid) :
                   /\ rooms'[sid_to_room[sid]].host_sid = room.players[i].sid
                   /\ \A j \in remaining(room, sid) :
                         joined_rank(room.players[i].name) <= joined_rank(room.players[j].name)]_vars

\* C24: for the round timer and for the defense timer, in every reachable state at
\* most one of the deadline and the paused remainder is set, after any sequence of
\* start, pause, deal, vote, revote and return-to-lobby commands.
C24_DeadlineOrRemainderNotBoth ==
    \A code \in DOMAIN rooms :
        /\ rooms[code].timer_end = NoTime \/ rooms[code].timer_paused_remaining = NoTime
        /\ rooms[code].defense_timer_end = NoTime
              \/ rooms[code].defense_timer_paused_remaining = NoTime

\* in a defense the defense timer is paused and the round timer, paused and started
\* again before, is running
C24_Witness ==
    /\ TheRoom.phase = "defense"
    /\ TheRoom.defense_timer_paused_remaining # NoTime
    /\ TheRoom.timer_end # NoTime
    /\ TheRoom.timer_end # clock + TheRoom.round_minutes * 60
    /\ clock > ClockStart

\* C27: with time an integer clock, start_defense_timer in phase defense with no
\* paused remainder sets the defense deadline to now + 30 x (number of tied
\* suspects), one duration shared by all suspects; with a paused remainder r it
\* sets the deadline to now + r and clears the remainder; pause_defense_timer with
\* a deadline set stores max(0, deadline - now) as the remainder and clears the
\* deadline; neither changes the phase.
C27_DefenseTimerArithmetic ==
    [][/\ \A sid \in DOMAIN sid_to_room, now \in Readings :
             on_start_defense_timer(sid, now) =>
                LET room == RoomOf(sid)
                    after == rooms'[sid_to_room[sid]]
                IN /\ after.phase = room.phase
                   /\ after.defense_timer_paused_remaining = NoTime
                   /\ IF room.defense_timer_paused_remaining = NoTime
                      THEN after.defense_timer_end = now + 30 * Cardinality(room.tied_suspects)
                      ELSE after.defense_timer_end = now + room.defense_timer_paused_remaining
       /\ \A sid \in DOMAIN sid_to_room, now \in Readings :
             (on_pause_defense_timer(sid, now) /\ RoomOf(sid).defense_timer_end # NoTime) =>
                LET room == RoomOf(sid)
                    after == rooms'[sid_to_room[sid]]
                IN /\ after.phase = room.phase
                   /\ after.defense_timer_end = NoTime
                   /\ after.defense_timer_paused_remaining >= 0
                   /\ after.defense_timer_paused_remaining >= room.defense_timer_end - now
                   /\ after.defense_timer_paused_remaining \in {0, room.defense_timer_end - now}]_vars

\* a defense of three suspects whose timer was paused after its deadline, and one
\* whose timer was paused with time left
C27_Witness ==
    /\ TheRoom.phase = "defense"
    /\ Cardinality(TheRoom.tied_suspects) = 3
    /\ TheRoom.defense_timer_paused_remaining = 0

C27_Witness_TimeLeft ==
    /\ TheRoom.phase = "defense"
    /\ TheRoom.defense_timer_paused_remaining = 30 * Cardinality(TheRoom.tied_suspects) - 20

\* secrets a player may hold: a role, a notes map, a list of eliminated locations
SecretRoles == {SPY, "DJ", "Driver"}
SecretNotes == {<<>>, ("Al" :> "liar")}
SecretEliminated == {<<>>, <<"Taxi">>}

\* the room with the secrets of every player but the one at index viewer replaced
with_other_secrets(room, viewer, role, notes, eliminated) ==
    [room EXCEPT !.players =
        [i \in DOMAIN room.players |->
            IF i = viewer THEN room.players[i]
            ELSE [room.players[i] EXCEPT
                     !.role = role,
                     !.location = IF role = SPY THEN None ELSE room.location,
                     !.notes = notes,
                     !.eliminated_locations = eliminated]]]

\* the rooms that differ from room only in which other participant is the spy and
\* in the other participants' roles, notes and eliminated locations
other_spy_variants(room, viewer) ==
    {[with_other_secrets(room, viewer, role, notes, eliminated) EXCEPT !.spy_sid = spy] :
        spy \in {room.players[i].sid : i \in DOMAIN room.players \ {viewer}},
        role \in SecretRoles, notes \in SecretNotes, eliminated \in SecretEliminated}

\* the rooms that differ from room only in the round location and in the other
\* participants' roles
location_variants(room, viewer) ==
    {[[room EXCEPT !.location = location] EXCEPT !.players =
         [i \in DOMAIN room.players |->
             IF i = viewer THEN room.players[i]
             ELSE [room.players[i] EXCEPT !.role = role, !.location = location]]] :
        location \in DOMAIN LOCATION_ROLES, role \in SecretRoles \ {SPY}}

\* C25: the projection built for a participant does not depend on the others'
\* secrets. Outside round_end, for a viewer who is not the spy, rooms that differ
\* only in which other participant is the spy and in the others' roles, notes and
\* eliminated locations give the same projection; for a viewer who is the spy, rooms
\* that differ only in the round location and the others' roles give the same
\* projection; the spy's name and the true location are given to everyone only in
\* round_end.
C25_ProjectionHidesOthersSecrets ==
    \A code \in DOMAIN rooms :
        \A viewer \in DOMAIN rooms[code].players :
            LET room == rooms[code]
                p == room.players[viewer]
                view == _get_player_state(room, p)
            IN /\ (room.phase # "round_end" /\ p.sid # room.spy_sid /\ p.role # SPY
                     /\ Len(room.players) > 1)
                  => \A other \in other_spy_variants(room, viewer) :
                        _get_player_state(other, p) = view
               /\ (room.phase # "round_end" /\ (p.sid = room.spy_sid \/ p.role = SPY))
                  => /\ \A other \in location_variants(room, viewer) :
                           _get_player_state(other, p) = view
                     /\ "location" \in DOMAIN view => view.location = None
               /\ ({"spyName", "actualLocation"} \cap DOMAIN view # {})
                  => room.phase = "round_end"

\* during a vote a connected participant who is not the spy views a room whose spy
\* is another connected participant
C25_Witness ==
    /\ "ROOM01" \in DOMAIN rooms
    /\ \E viewer \in DOMAIN TheRoom.players :
        /\ TheRoom.phase = "voting"
        /\ TheRoom.votes # <<>>
        /\ TheRoom.players[viewer].connected
        /\ TheRoom.players[viewer].role \notin {SPY, None}
        /\ \E i \in DOMAIN TheRoom.players \ {viewer} :
              TheRoom.players[i].connected /\ TheRoom.players[i].sid = TheRoom.spy_sid
        /\ \E other \in other_spy_variants(TheRoom, viewer) :
              /\ other.spy_sid # TheRoom.spy_sid
              /\ _get_player_state(other, TheRoom.players[viewer])
                    = _get_player_state(TheRoom, TheRoom.players[viewer])

\* every participant's role, location, notes, eliminated list and vote choice are
\* cleared
participants_cleared(room) ==
    \A i \in DOMAIN room.players :
        /\ room.players[i].role = None
        /\ room.players[i].location = None
        /\ room.players[i].notes = <<>>
        /\ room.players[i].eliminated_locations = <<>>
        /\ room.players[i].vote_target = None

\* the round state of the room has the values of a room just created
round_state_reset(room) ==
    /\ room.location = None
    /\ room.spy_sid = NoSid
    /\ room.votes = <<>>
    /\ room.revote_votes = <<>>
    /\ room.tied_suspects = {}
    /\ room.timer_end = NoTime
    /\ room.timer_paused_remaining = NoTime
    /\ room.defense_timer_end = NoTime
    /\ room.defense_timer_paused_remaining = NoTime
    /\ room.spy_guess_result = None

\* C26: after a return_to_lobby by the host the phase is lobby and no round or
\* secret state remains: every participant's role, location, notes, eliminated list
\* and vote choice are cleared, and the room's location, spy, ballots, revote
\* ballots, suspects, round and defense timers and outcome have their lobby values.
C26_ReturnToLobbyClearsRound ==
    [][\A sid \in DOMAIN sid_to_room :
          on_return_to_lobby(sid) =>
             /\ rooms'[sid_to_room[sid]].phase = "lobby"
             /\ participants_cleared(rooms'[sid_to_room[sid]])
             /\ round_state_reset(rooms'[sid_to_room[sid]])]_vars

\* the part about the phase and the participants alone
C26_ReturnToLobbyClearsParticipants ==
    [][\A sid \in DOMAIN sid_to_room :
          on_return_to_lobby(sid) =>
             /\ rooms'[sid_to_room[sid]].phase = "lobby"
             /\ rooms'[sid_to_room[sid]].round_number = 0
             /\ participants_cleared(rooms'[sid_to_room[sid]])]_vars

\* C28: within one round the room enters defense at most once, and once the phase
\* is defense or revote it never returns to playing or voting in that round: the
\* phase defense is entered from voting only, no step leads from defense, revote or
\* a later phase back to playing or voting, and every revote resolution ends in
\* spy_guess or round_end.
C28_NoSecondDefense ==
    [][("ROOM01" \in DOMAIN rooms /\ "ROOM01" \in DOMAIN rooms') =>
          LET before == rooms["ROOM01"].phase
              after == rooms'["ROOM01"].phase
          IN /\ before \in {"defense", "revote", "spy_guess", "round_end"}
                   => after \notin {"playing", "voting"}
             /\ (after = "defense" /\ before # "defense") => before = "voting"
             /\ \A sid \in DOMAIN sid_to_room, target \in RoundNames :
                   (on_cast_revote(sid, target) /\ after # "revote")
                      => after \in {"spy_guess", "round_end"}]_vars

\* a round that went through a defense and a revote and is now in spy_guess
C28_Witness ==
    /\ "ROOM01" \in DOMAIN rooms
    /\ TheRoom.phase = "spy_guess"
    /\ TheRoom.tied_suspects # {}
    /\ TheRoom.revote_votes # <<>>

\* the names of the connected participants who are not suspects
connected_revoters(room) == player_names(room) \ room.tied_suspects

\* C29: no state reached after a completed command has a fully cast but unresolved
\* ballot: the phase is never voting with a vote recorded for every connected
\* participant, nor revote with a revote ballot recorded for every connected
\* participant who is not a suspect, also after a disconnect or a kick.
C29_NoFullyCastUnresolvedBallot ==
    \A code \in DOMAIN rooms :
        /\ rooms[code].phase = "voting"
              => ~(player_names(rooms[code]) \subseteq DOMAIN rooms[code].votes)
        /\ rooms[code].phase = "revote"
              => ~(connected_revoters(rooms[code]) \subseteq DOMAIN rooms[code].revote_votes)

\* the same for the states a cast_vote or a cast_revote leaves when no voter has
\* left the room or disconnected (every ballot is a connected participant's)
C29_NoFullyCastUnresolvedBallotAfterCast ==
    [][/\ \A sid \in DOMAIN sid_to_room, target \in RoundNames :
             (on_cast_vote(sid, target) /\ rooms'[sid_to_room[sid]].phase = "voting"
                /\ DOMAIN rooms'[sid_to_room[sid]].votes
                      \subseteq player_names(rooms'[sid_to_room[sid]]))
             => ~(player_names(rooms'[sid_to_room[sid]])
                     \subseteq DOMAIN rooms'[sid_to_room[sid]].votes)
       /\ \A sid \in DOMAIN sid_to_room, target \in RoundNames :
             (on_cast_revote(sid, target) /\ rooms'[sid_to_room[sid]].phase = "revote"
                /\ DOMAIN rooms'[sid_to_room[sid]].revote_votes
                      \subseteq connected_revoters(rooms'[sid_to_room[sid]]))
             => ~(connected_revoters(rooms'[sid_to_room[sid]])
                     \subseteq DOMAIN rooms'[sid_to_room[sid]].revote_votes)]_vars

\* C30: every deal takes place with at least 3 connected participants, whether
\* start_game or new_round triggers it: right after a deal the room never has fewer
\* than 3 connected participants, and never the spy as its only dealt participant.
C30_DealNeedsThreeConnected ==
    [][/\ \A sid \in DOMAIN sid_to_room, minutes \in MinutesInputs :
             on_start_game(sid, minutes)
                => connected_count(rooms'[sid_to_room[sid]]) >= MinPlayers
       /\ \A sid \in DOMAIN sid_to_room :
             on_new_round(sid)
                => /\ connected_count(rooms'[sid_to_room[sid]]) >= MinPlayers
                   /\ \E i \in DOMAIN rooms'[sid_to_room[sid]].players :
                         /\ rooms'[sid_to_room[sid]].players[i].connected
                         /\ rooms'[sid_to_room[sid]].players[i].role # SPY]_vars

\* the same for the deals of start_game alone
C30_StartGameNeedsThreeConnected ==
    [][\A sid \in DOMAIN sid_to_room, minutes \in MinutesInputs :
          on_start_game(sid, minutes)
             => connected_count(rooms'[sid_to_room[sid]]) >= MinPlayers]_vars

----------------------------------------------------------------------------
\* p.vote_target against room.votes.get(p.name)
own_vote_agrees(room, p) ==
    IF p.name \in DOMAIN room.votes THEN p.vote_target = room.votes[p.name]
    ELSE p.vote_target = None

\* C31: in every reachable state each participant's own vote choice (vote_target,
\* shown as myVote) agrees with the room's ballot map: it is the ballot recorded
\* under the participant's name when there is one and empty when there is none.
C31_VoteTargetAgreesWithBallots ==
    \A code \in DOMAIN rooms : \A i \in DOMAIN rooms[code].players :
        own_vote_agrees(rooms[code], rooms[code].players[i])

\* the same for the states in which the choice is shown (phase voting)
C31_VoteTargetAgreesWhileVoting ==
    \A code \in DOMAIN rooms : \A i \in DOMAIN rooms[code].players :
        rooms[code].phase = "voting"
           => own_vote_agrees(rooms[code], rooms[code].players[i])

----------------------------------------------------------------------------
\* the values the code assigns to room.spy_guess_result
Outcomes == {"spy_wins_wrong_vote", "spy_wins_revote_tie", "spy_wins_correct_guess",
             "players_win", "spy_kicked"}

\* room.spy_guess_result against room.phase
outcome_tag_ok(room) ==
    /\ room.phase = "round_end" => room.spy_guess_result \in Outcomes
    /\ room.phase \in {"playing", "voting", "defense", "revote", "spy_guess"}
          => room.spy_guess_result = None

\* no handler is in the middle of its run
handlers_returned == cv.pc \in {"idle", "done"} /\ cc.pc \in {"idle", "done"}

\* C32: in every reachable state the round outcome tag is set exactly when the
\* round is over: one of the five outcomes in phase round_end, unset in phases
\* playing, voting, defense, revote and spy_guess.
C32_OutcomeTagIffRoundOver ==
    handlers_returned => \A code \in DOMAIN rooms : outcome_tag_ok(rooms[code])

\* the same for the states reached by handlers that ran one after the other
C32_OutcomeTagIffRoundOverOneAtATime ==
    threads = NoThreads => \A code \in DOMAIN rooms : outcome_tag_ok(rooms[code])

----------------------------------------------------------------------------
\* room.host_sid is the key of a connected player of the room
host_present(room) ==
    \E i \in DOMAIN room.players :
        room.players[i].sid = room.host_sid /\ room.players[i].connected

\* a command sent by the connection `sid` passes `code = sid_to_room.get(sid)` and
\* `sid != room.host_sid` of the host-only handlers of room `code`
commands_as_host(sid, code) ==
    /\ sid \in DOMAIN sid_to_room
    /\ sid_to_room[sid] = code
    /\ sid = rooms[code].host_sid

\* C33: in every reachable state the host identity of every existing room refers
\* to a participant that is present in the room and connected, so that some
\* connected participant can issue the host-only commands of the room.
C33_HostPresentAndConnected ==
    \A code \in DOMAIN rooms :
        /\ host_present(rooms[code])
        /\ \E i \in DOMAIN rooms[code].players :
              /\ rooms[code].players[i].connected
              /\ commands_as_host(rooms[code].players[i].sid, code)

\* the first part alone: the host identity is the key of a connected participant
C33_HostFlaggedConnected ==
    \A code \in DOMAIN rooms : host_present(rooms[code])

----------------------------------------------------------------------------
\* room.tied_suspects, room.revote_votes and room.votes against room.phase
vote_state_ok(room) ==
    /\ room.phase \in {"playing", "voting"}
          => room.tied_suspects = {} /\ room.revote_votes = <<>>
    /\ room.phase = "playing" => room.votes = <<>>
    /\ room.phase \in {"defense", "revote"} => Cardinality(room.tied_suspects) >= 2

\* C34: whenever the phase is playing or voting the suspect list and the revote
\* ballots are empty, whenever it is playing the ballot map is empty, and whenever
\* it is defense or revote the suspect list has at least two names.
C34_VoteStateFitsPhase ==
    handlers_returned => \A code \in DOMAIN rooms : vote_state_ok(rooms[code])

\* the same for the states reached by handlers that ran one after the other
C34_VoteStateFitsPhaseOneAtATime ==
    threads = NoThreads => \A code \in DOMAIN rooms : vote_state_ok(rooms[code])

----------------------------------------------------------------------------
\* the rooms that hold a Player record under the key sid
rooms_of(sid) == {code \in DOMAIN rooms : HasKey(rooms[code].players, sid)}

\* the connections that are keys of some room
seated == UNION {{rooms[code].players[i].sid : i \in DOMAIN rooms[code].players} :
                    code \in DOMAIN rooms}

\* on_disconnect of the connection sid marks the player disconnected in room code
disconnect_reaches(sid, code) == sid \in DOMAIN sid_to_room /\ sid_to_room[sid] = code

\* C35: each connection is a participant of at most one room, and for every room
\* and every connected participant in it the lookup maps the participant's
\* connection to that room, so that a disconnect reaches every room in which the
\* connection is a connected participant, also after a second create_room or
\* join_room of the connection.
C35_LookupAgreesWithRooms ==
    /\ \A sid \in seated : Cardinality(rooms_of(sid)) <= 1
    /\ \A code \in DOMAIN rooms : \A i \in DOMAIN rooms[code].players :
          rooms[code].players[i].connected
             => disconnect_reaches(rooms[code].players[i].sid, code)
====
